---------------------------- MODULE Spec2Model ----------------------------
(***************************************************************************)
(* Cross-fitted variable importance of the classification example          *)
(* (run_one_fold, the Parallel dispatch over folds x models x methods,     *)
(* pd.concat and compute_pval), with the K-fold splitter and the           *)
(* one-sample t-test it calls.                                             *)
(* Further: the loops that keep the fitted models of the folds and reuse   *)
(* them for PFI and CPI, and one call of an importance method (PFI, LOCO,  *)
(* CPI) on one test partition.                                             *)
(* Further: the XOR example (univariate scores against CPI), the fMRI      *)
(* example (the try block around Desparsified Lasso and the plots), the    *)
(* repeated runs of the knockoff aggregation example, and the CI pipeline  *)
(* as the developer documentation describes it.                            *)
(***************************************************************************)
EXTENDS Integers, Sequences, FiniteSets, TLC

VARIABLES
    pc,         \* where the notebook cell sequence is: "start", "dispatch", "collected", "pval", "failed";
                \* "fit", "pfi", "cpi", "end" in the loops over kept models; "vim", "pfi_importance",
                \* "loco_fit", "loco_importance" in one call of an importance method
    n_splits,   \* KFold(n_splits=...)
    indices,    \* the index array of KFold after shuffle(indices)
    groups,     \* the groups dict handed to run_one_fold, in key order
    imp,        \* what vim.importance(...)["importance"] evaluates to, per (fold, model, vim, group)
    status,     \* per dispatched task: "pending", "running", "done", "raised"
    results,    \* per task: the DataFrame run_one_fold returned, or Unbound
    fitted,     \* the tasks whose model_c.fit(...) has returned
    raised,     \* per task: the exception it raised, or NoExc
    out_list,   \* the list Parallel(...) returned, or Unbound
    df,         \* pd.concat(out_list), or Unbound
    df_pval,    \* what compute_pval returned, or Unbound
    pval_all,   \* the df_pval_list of compute_pval before the threshold query, or Unbound
    error,      \* the exception that ended the run, or NoExc
    vim_names,  \* the names the dispatch iterates over: for vim_name in [...]
    vims,       \* per task: the object bound to the local name vim of run_one_fold, or Unbound
    fitted_estimators,          \* the models kept by the fitting loop, fold after fold
    permutation_importances,    \* what the PFI loop has appended, fold after fold
    conditional_importances,    \* what the CPI loop has appended, fold after fold
    X_test,         \* the matrix X[test_index] handed to vim.importance, row by row
    y_test,         \* y[test_index]
    estimator,      \* the fitted model handed to the importance method
    sub_models,     \* LOCO: the models vim.fit has refitted, one per group, or <<>>
    permuted,       \* PFI: the permuted copies of X_test, per group and repetition, or <<>>
    importances,    \* what vim.importance(...)["importance"] returned, or Unbound
    imputers,       \* CPI: the auxiliary models vim.fit has fitted, one per group, or <<>>
    marginal_scores,    \* what the loop over univariate models has appended, feature after feature
    commit_marker,  \* CI: the marker in the commit message, or None
    modified,       \* CI: the examples the commit has modified directly
    lint,           \* CI: the static analysis by Black: "pending", "passed", "failed"
    tests,          \* CI: the tests: "pending", "skipped", "passed", "failed"
    docs,           \* CI: the documentation: "pending", "built"
    examples_run,   \* CI: the examples executed so far
    pval_dl,            \* fMRI: the p-value map of Desparsified Lasso, None, or Unbound
    one_minus_pval_dl,  \* fMRI: its one-minus map, None, or Unbound
    pval_cdl,           \* fMRI: the p-value map of clustered inference, or Unbound
    one_minus_pval_cdl, \* fMRI: its one-minus map, or Unbound
    selected,           \* fMRI: the selection of ensemble clustered inference, or Unbound
    plotted,            \* fMRI: the titles of the maps plot_map has drawn, in order
    printed,            \* fMRI: the lines print has written
    raised_in_try,      \* fMRI: the exception raised inside the try block, or NoExc
    n_samples,          \* knockoffs: the argument of effect_number_samples, or None
    seed_list,          \* knockoffs: the seeds of the runs
    worker_status,      \* knockoffs: per run "pending", "running", "done"
    worker_results,     \* knockoffs: per run the tuple single_run has returned, or <<>>
    finish_order,       \* knockoffs: the runs in the order in which they have returned
    knockoff_results,   \* knockoffs: the list parallel(...) returned, or Unbound
    fdps_mx,            \* knockoffs: the six lists of effect_number_samples
    fdps_pval,
    fdps_eval,
    powers_mx,
    powers_pval,
    powers_eval

\* the variables of the example that keeps its fitted models for two methods
reuseVars == <<fitted_estimators, permutation_importances, conditional_importances>>

\* the variables of the examples other than the classification example
\* the variables of one call of an importance method on one test partition
vimVars == <<X_test, y_test, estimator, sub_models, permuted, importances>>

\* the variables of the examples modelled further below
\* the variables of one call of CPI and of the XOR example
cpiVars == <<imputers, marginal_scores>>

\* the variables of a run of the CI pipeline
ciVars == <<commit_marker, modified, lint, tests, docs, examples_run>>

\* the variables of the fMRI example
fmriVars == <<pval_dl, one_minus_pval_dl, pval_cdl, one_minus_pval_cdl, selected, plotted,
              printed, raised_in_try>>

\* the variables of the knockoff aggregation example
knockoffVars == <<n_samples, seed_list, worker_status, worker_results, finish_order, knockoff_results,
                  fdps_mx, fdps_pval, fdps_eval, powers_mx, powers_pval, powers_eval>>

laterVars == <<cpiVars, ciVars, fmriVars, knockoffVars>>

exampleVars == <<reuseVars, vimVars, laterVars>>

vars == <<pc, n_splits, indices, groups, imp, status, results, fitted, raised,
          out_list, df, df_pval, pval_all, error, vim_names, vims, exampleVars>>

None == "None"

\* a name not bound yet, and a name bound to the value v
Unbound == [bound |-> FALSE, val |-> <<>>]

Bound(v) == [bound |-> TRUE, val |-> v]

\* an exception of the given Python type raised at the given call, and no exception
Exc(type, site) == [type |-> type, site |-> site]

NoExc == Exc(None, None)

(* ------------------------------ bounds -------------------------------- *)

\* number of rows of X
NSamples == 3
\* number of columns of X
NFeatures == 2
\* Parallel(n_jobs=...)
NJobs == 2
\* importance values drawn for the significance test lie in -MaxAbs..MaxAbs
MaxAbs == 2
\* number of rows of X[test_index] in one call of an importance method
NTest == 3
\* n_permutations=...
NPermutations == 2
\* number of repetitions of the knockoff methods: runs
NRuns == 3
\* the seeds drawn for the runs lie in 1..MaxSeed
MaxSeed == 3

(* --------------------------- the dispatch list ------------------------ *)

\* models = [LogisticRegressionCV(...), GridSearchCV(SVC(...))]
models == <<"LogisticRegressionCV", "GridSearchCV">>

\* for vim_name in ["CPI", "PFI"]
DefaultVimNames == <<"CPI", "PFI">>

(* ------------------------------- KFold -------------------------------- *)

\* n_samples // n_splits, plus one for the first n_samples % n_splits folds
FoldSize(k) ==
    (NSamples \div n_splits) + (IF k <= NSamples % n_splits THEN 1 ELSE 0)

RECURSIVE FoldStartFrom(_)
FoldStartFrom(k) == IF k <= 1 THEN 0 ELSE FoldStartFrom(k - 1) + FoldSize(k - 1)

\* an offset that forgets the folds with one more row
FoldStartNoRemainder(k) == (k - 1) * (NSamples \div n_splits)

\* current, the running offset into indices at the k-th fold
FoldStart(k) == FoldStartFrom(k)

\* test_index of the k-th fold: indices[start:stop]
TestIndex(k) == { indices[i] : i \in (FoldStart(k) + 1)..(FoldStart(k) + FoldSize(k)) }

\* train_index of the k-th fold: the rows outside the test mask
TrainIndex(k) == (1..NSamples) \ TestIndex(k)


\* number of folds the splitter yields
NFolds == n_splits

(* ------------------------------ groups -------------------------------- *)

\* groups = {ft: i for i, ft in enumerate(dataset.feature_names)}
IndividualGroups == [i \in 1..NFeatures |-> [name |-> <<"feature", i>>, cols |-> {i}]]

\* groups = {"sepal features": [0, 1], "petal features": [2, 3, 4]}
FeatureGroups ==
    << [name |-> <<"group", 1>>, cols |-> 1..(NFeatures \div 2)],
       [name |-> <<"group", 2>>, cols |-> ((NFeatures \div 2) + 1)..NFeatures] >>

\* a groups dict whose last group names a column X does not have
OutOfRangeGroups ==
    << [name |-> <<"group", 1>>, cols |-> 1..(NFeatures \div 2)],
       [name |-> <<"group", 2>>, cols |-> ((NFeatures \div 2) + 1)..(NFeatures + 1)] >>

GroupMappings == {IndividualGroups, FeatureGroups, OutOfRangeGroups}

\* groups=None, the default of run_one_fold, when the caller passes no groups
NoGroups == <<[name |-> <<None, 0>>, cols |-> {}]>>

\* vim.fit(..., groups=None) takes every column as a group of its own
EffectiveGroups(g) == IF g = NoGroups THEN IndividualGroups ELSE g

\* every column a group names is a column of X
GroupsInRange(g) == \A i \in 1..Len(g) : g[i].cols \subseteq 1..NFeatures

(* ------------------------- the generator of tasks --------------------- *)

\* for train_index, test_index in cv.split(X) for model in models for vim_name in [...]
NTasks == NFolds * Len(models) * Len(vim_names)

Tasks == 1..NTasks

FoldOf(t) == ((t - 1) \div (Len(models) * Len(vim_names))) + 1

ModelOf(t) == models[(((t - 1) \div Len(vim_names)) % Len(models)) + 1]

VimOf(t) == vim_names[((t - 1) % Len(vim_names)) + 1]

TaskOf(k, m, v) ==
    CHOOSE t \in 1..(NFolds * Len(models) * Len(vim_names)) :
        FoldOf(t) = k /\ ModelOf(t) = m /\ VimOf(t) = v

(* ----------------------------- run_one_fold --------------------------- *)

\* a choice in which every model is scored with log_loss, whatever its channel
ChannelLogLossOnly(model) ==
    IF model = "LogisticRegressionCV"
    THEN [method |-> "predict_proba", loss |-> "log_loss", model_name |-> "LogReg"]
    ELSE [method |-> "decision_function", loss |-> "log_loss", model_name |-> "SVC"]

\* isinstance(model_c, LogisticRegressionCV) chooses the channel, the loss and the label
Channel(model) ==
    IF model = "LogisticRegressionCV"
    THEN [method |-> "predict_proba", loss |-> "log_loss", model_name |-> "LogReg"]
    ELSE [method |-> "decision_function", loss |-> "hinge_loss", model_name |-> "SVC"]

\* an if / else on vim_name: every name other than "CPI" gets a PFI
MakeVimElsePfi(t) ==
    IF VimOf(t) = "CPI"
    THEN Bound([class |-> "CPI", estimator |-> ModelOf(t),
                imputation_model_continuous |-> "RidgeCV",
                method |-> Channel(ModelOf(t)).method, loss |-> Channel(ModelOf(t)).loss])
    ELSE Bound([class |-> "PFI", estimator |-> ModelOf(t),
                imputation_model_continuous |-> None,
                method |-> Channel(ModelOf(t)).method, loss |-> Channel(ModelOf(t)).loss])

\* the object the if / elif on vim_name binds to the local name vim, with the
\* arguments it is built from; no branch for any other name: vim stays unbound
MakeVim(t) ==
    IF VimOf(t) = "CPI"
    THEN Bound([class |-> "CPI", estimator |-> ModelOf(t),
                imputation_model_continuous |-> "RidgeCV",
                method |-> Channel(ModelOf(t)).method, loss |-> Channel(ModelOf(t)).loss])
    ELSE IF VimOf(t) = "PFI"
    THEN Bound([class |-> "PFI", estimator |-> ModelOf(t),
                imputation_model_continuous |-> None,
                method |-> Channel(ModelOf(t)).method, loss |-> Channel(ModelOf(t)).loss])
    ELSE Unbound

\* a generator shared by the tasks: its position is what earlier tasks left
SharedRandomState(t) == [seed |-> 0, pos |-> Cardinality({u \in DOMAIN status : status[u] = "done"})]

\* a generator per task, seeded with the base seed 0 plus the index of the task
IndexedRandomState(t) == [seed |-> 0 + t, pos |-> 0]

\* random_state=0: CPI(...) and PFI(...) each seed a generator of their own
RandomStateOf(t) == [seed |-> 0, pos |-> 0]

\* what the permutation draws of a generator in state rs add to the importance
\* measured with the draws of a fresh RandomState(0)
DrawEffect(rs) == rs.seed + rs.pos

\* vim.importance(X[test_index], y[test_index])["importance"], one value per group
Importance(t, rs) ==
    [i \in 1..Len(groups) |-> imp[<<FoldOf(t), ModelOf(t), VimOf(t), i>>] + DrawEffect(rs)]

\* balanced_accuracy_score(y_true=y[test_index], y_pred=y_pred)
Score(t) == <<"balanced_accuracy", FoldOf(t), ModelOf(t)>>

\* a frame with a row for the first key of groups only
FrameFirstKey(t, importance) ==
    [i \in 1..1 |->
        [feature |-> groups[i].name,
         importance |-> importance[i],
         vim |-> VimOf(t),
         model |-> Channel(ModelOf(t)).model_name,
         score |-> Score(t)]]

\* the pd.DataFrame run_one_fold returns: one row per key of groups
Frame(t, importance) ==
    [i \in 1..Len(groups) |->
        [feature |-> groups[i].name,
         importance |-> importance[i],
         vim |-> VimOf(t),
         model |-> Channel(ModelOf(t)).model_name,
         score |-> Score(t)]]

BoundFrame(t, importance) == Bound(Frame(t, importance))

\* run_one_fold that looks at the groups before it fits the model
RunOneFoldGroupsFirst(t, fitRaises, auxRaises, lossRaises) ==
    IF ~GroupsInRange(groups)
    THEN [fit |-> FALSE, exc |-> Exc("IndexError", "vim.fit"), frame |-> Unbound]
    ELSE IF fitRaises
    THEN [fit |-> FALSE, exc |-> Exc("ValueError", "model_c.fit"), frame |-> Unbound]
    ELSE IF VimOf(t) = "CPI" /\ auxRaises
    THEN [fit |-> TRUE, exc |-> Exc("ValueError", "vim.fit"), frame |-> Unbound]
    ELSE IF Cardinality(TestIndex(FoldOf(t))) < 2 /\ lossRaises
    THEN [fit |-> TRUE, exc |-> Exc("ValueError", "vim.importance"), frame |-> Unbound]
    ELSE [fit |-> TRUE, exc |-> NoExc, frame |-> BoundFrame(t, Importance(t, RandomStateOf(t)))]

\* run_one_fold that refuses a test partition of fewer than 2 rows before it fits
\* the model
RunOneFoldSizeCheck(t, fitRaises, auxRaises, lossRaises) ==
    IF Cardinality(TestIndex(FoldOf(t))) < 2
    THEN [fit |-> FALSE, exc |-> Exc("InsufficientDataError", "run_one_fold"),
          frame |-> Unbound]
    ELSE IF fitRaises
    THEN [fit |-> FALSE, exc |-> Exc("ValueError", "model_c.fit"), frame |-> Unbound]
    ELSE IF ~GroupsInRange(groups)
    THEN [fit |-> TRUE, exc |-> Exc("IndexError", "vim.fit"), frame |-> Unbound]
    ELSE IF VimOf(t) = "CPI" /\ auxRaises
    THEN [fit |-> TRUE, exc |-> Exc("ValueError", "vim.fit"), frame |-> Unbound]
    ELSE [fit |-> TRUE, exc |-> NoExc, frame |-> BoundFrame(t, Importance(t, RandomStateOf(t)))]

\* run_one_fold that catches the failure of the imputation model and fills in 0
RunOneFoldZeroFill(t, fitRaises, auxRaises, lossRaises) ==
    IF fitRaises
    THEN [fit |-> FALSE, exc |-> Exc("ValueError", "model_c.fit"), frame |-> Unbound]
    ELSE IF ~GroupsInRange(groups)
    THEN [fit |-> TRUE, exc |-> Exc("IndexError", "vim.fit"), frame |-> Unbound]
    ELSE IF VimOf(t) = "CPI" /\ auxRaises
    THEN [fit |-> TRUE, exc |-> NoExc, frame |-> BoundFrame(t, [i \in 1..Len(groups) |-> 0])]
    ELSE IF Cardinality(TestIndex(FoldOf(t))) < 2 /\ lossRaises
    THEN [fit |-> TRUE, exc |-> Exc("ValueError", "vim.importance"), frame |-> Unbound]
    ELSE [fit |-> TRUE, exc |-> NoExc, frame |-> BoundFrame(t, Importance(t, RandomStateOf(t)))]

\* run_one_fold(X, y, model, train_index, test_index, vim_name, groups):
\*   fitRaises  - model_c.fit raises
\*   auxRaises  - the imputation model of CPI raises in vim.fit
\*   lossRaises - the loss raises in vim.importance on a test partition of < 2 rows
\* With groups=None the frame cannot be built: "feature": groups.keys() raises
\* AttributeError once the model is fitted and the importance is computed.
\* With a vim_name that is neither "CPI" nor "PFI" the name vim is not bound and
\* vim.fit(...) raises UnboundLocalError once the model is fitted.
\* No statement catches an exception: the first one raised leaves the function.
RunOneFold(t, fitRaises, auxRaises, lossRaises) ==
    IF fitRaises
    THEN [fit |-> FALSE, exc |-> Exc("ValueError", "model_c.fit"), frame |-> Unbound]
    ELSE IF ~MakeVim(t).bound
    THEN [fit |-> TRUE, exc |-> Exc("UnboundLocalError", "vim.fit"), frame |-> Unbound]
    ELSE IF ~GroupsInRange(EffectiveGroups(groups))
    THEN [fit |-> TRUE, exc |-> Exc("IndexError", "vim.fit"), frame |-> Unbound]
    ELSE IF VimOf(t) = "CPI" /\ auxRaises
    THEN [fit |-> TRUE, exc |-> Exc("ValueError", "vim.fit"), frame |-> Unbound]
    ELSE IF Cardinality(TestIndex(FoldOf(t))) < 2 /\ lossRaises
    THEN [fit |-> TRUE, exc |-> Exc("ValueError", "vim.importance"), frame |-> Unbound]
    ELSE IF groups = NoGroups
    THEN [fit |-> TRUE, exc |-> Exc("AttributeError", "groups.keys"), frame |-> Unbound]
    ELSE [fit |-> TRUE, exc |-> NoExc, frame |-> BoundFrame(t, Importance(t, RandomStateOf(t)))]

(* ------------------------------ ttest_1samp --------------------------- *)

RECURSIVE SumSeq(_)
SumSeq(s) == IF s = <<>> THEN 0 ELSE Head(s) + SumSeq(Tail(s))

SumSquares(s) == SumSeq([i \in 1..Len(s) |-> s[i] * s[i]])

\* n * sum(x^2) - sum(x)^2 = n * (n - 1) * var(x, ddof=1): zero iff all values are equal
ScaledVariance(s) == Len(s) * SumSquares(s) - SumSeq(s) * SumSeq(s)

RECURSIVE GCD(_, _)
GCD(a, b) == IF b = 0 THEN a ELSE GCD(b, a % b)

Sign(x) == IF x > 0 THEN 1 ELSE IF x < 0 THEN -1 ELSE 0

\* a t-test that refuses a sample without variance
TTestStrict(s) ==
    IF Len(s) < 2 \/ ScaledVariance(s) = 0
    THEN [kind |-> "error"]
    ELSE [kind |-> "sf", df |-> Len(s) - 1, sign |-> Sign(SumSeq(s)),
          num |-> (SumSeq(s) * SumSeq(s) * (Len(s) - 1))
                      \div GCD(SumSeq(s) * SumSeq(s) * (Len(s) - 1), ScaledVariance(s)),
          den |-> ScaledVariance(s)
                      \div GCD(SumSeq(s) * SumSeq(s) * (Len(s) - 1), ScaledVariance(s))]

\* a t-test that maps every sample without variance to p = 1
TTestDegenerateOne(s) ==
    IF Len(s) < 2 \/ ScaledVariance(s) = 0
    THEN [kind |-> "one"]
    ELSE TTestStrict(s)

\* a t-test that leaves the value of the first fold out
TTestWithoutFirst(s) == TTestDegenerateOne(Tail(s))

\* ttest_1samp(sample, 0, alternative="greater").pvalue.
\* t = mean / sqrt(var / n) in IEEE arithmetic, p = sf(t) of Student's t with n - 1
\* degrees of freedom:
\*   var = 0, mean > 0:  t = +inf, p = 0.0        ("zero")
\*   var = 0, mean < 0:  t = -inf, p = 1.0        ("one")
\*   var = 0, mean = 0:  t = 0/0 = nan, p = nan   ("nan"); n < 2 gives var = nan too
\*   otherwise p = sf(t), written as the sign of t and t^2 = sum^2 (n-1) / ScaledVariance
TTest1Samp(s) ==
    IF Len(s) < 2 THEN [kind |-> "nan"]
    ELSE IF ScaledVariance(s) = 0
    THEN (IF SumSeq(s) > 0 THEN [kind |-> "zero"]
          ELSE IF SumSeq(s) < 0 THEN [kind |-> "one"]
          ELSE [kind |-> "nan"])
    ELSE TTestStrict(s)

\* 10^4 times the square of the 0.95 quantile of Student's t with d degrees of freedom
TCritSq(d) ==
    CASE d = 1 -> 398635
      [] d = 2 -> 85263
      [] d = 3 -> 55383
      [] d = 4 -> 45448
      [] d = 5 -> 40604
      [] OTHER -> 37759

\* pval < threshold with threshold = 0.05; a comparison with nan is False
BelowThreshold(p) ==
    CASE p.kind = "zero" -> TRUE
      [] p.kind = "sf" -> p.sign > 0 /\ p.num * 10000 > TCritSq(p.df) * p.den
      [] OTHER -> FALSE

(* ------------------------------ compute_pval -------------------------- *)

RECURSIVE Unique(_)
\* Series.unique(): the values in order of first appearance
Unique(s) ==
    IF s = <<>> THEN <<>>
    ELSE LET r == Unique(SubSeq(s, 1, Len(s) - 1))
         IN  IF \E i \in 1..Len(r) : r[i] = s[Len(s)] THEN r ELSE Append(r, s[Len(s)])

Column(frame, field) == [i \in 1..Len(frame) |-> frame[i][field]]

RECURSIVE Filter(_, _, _, _)
\* the importance column of the rows with the given model, vim and feature
\* (feature = None: every feature)
Filter(frame, model, vim, feature) ==
    IF frame = <<>> THEN <<>>
    ELSE LET r == Head(frame)
             rest == Filter(Tail(frame), model, vim, feature)
         IN  IF (model = None \/ r.model = model) /\ r.vim = vim
                /\ (feature = None \/ r.feature = feature)
             THEN <<r.importance>> \o rest
             ELSE rest

RECURSIVE MaxSeq(_)
MaxSeq(s) ==
    IF Len(s) = 1 THEN s[1]
    ELSE LET m == MaxSeq(Tail(s)) IN IF Head(s) > m THEN Head(s) ELSE m

RECURSIVE Flatten(_)
\* pd.concat(out_list): the rows of the frames, frame after frame
Flatten(frames) == IF frames = <<>> THEN <<>> ELSE Head(frames) \o Flatten(Tail(frames))

\* df_pval_list: one entry per (model, vim, feature) in the order of the three loops
PvalList(frame) ==
    LET ms == Unique(Column(frame, "model"))
        vs == Unique(Column(frame, "vim"))
        fs == Unique(Column(frame, "feature"))
        n  == Len(ms) * Len(vs) * Len(fs)
        M(j) == ms[((j - 1) \div (Len(vs) * Len(fs))) + 1]
        V(j) == vs[(((j - 1) \div Len(fs)) % Len(vs)) + 1]
        F(j) == fs[((j - 1) % Len(fs)) + 1]
    IN  [j \in 1..n |->
            [feature |-> F(j), vim |-> V(j), model |-> M(j),
             pval |-> TTest1Samp(Filter(frame, M(j), V(j), F(j))),
             y_coord |-> MaxSeq(Filter(frame, None, V(j), None))]]

\* 10^4 times the square of the 1 - 0.05/8 quantile of Student's t with d degrees of
\* freedom: the Bonferroni threshold for 8 tests
TCritSqBonferroni(d) ==
    CASE d = 1 -> 25931556
      [] d = 2 -> 785031
      [] d = 3 -> 290731
      [] d = 4 -> 186163
      [] d = 5 -> 145161
      [] OTHER -> 123990

\* pval < threshold / 8
BelowBonferroni(p) ==
    CASE p.kind = "zero" -> TRUE
      [] p.kind = "sf" -> p.sign > 0 /\ p.num * 10000 > TCritSqBonferroni(p.df) * p.den
      [] OTHER -> FALSE

\* a query with a Bonferroni correction inside
QueryBelowBonferroni(list) == SelectSeq(list, LAMBDA e : BelowBonferroni(e.pval))

\* df_pval.query(f"pval < {threshold}")
QueryBelow(list) == SelectSeq(list, LAMBDA e : BelowThreshold(e.pval))

(* ------------------------------- the run ------------------------------ *)

ImportanceKeys(n, g) ==
    (1..n) \X {models[i] : i \in 1..Len(models)}
           \X {vim_names[i] : i \in 1..Len(vim_names)} \X (1..Len(g))

\* the table of a dataset on which fold k measures sample[k] for every group
ImportanceTable(n, g, sample) == [key \in ImportanceKeys(n, g) |-> sample[key[1]]]

\* the per-fold importances of two datasets: the same in every fold, and growing
LinearSamples(n) == {[k \in 1..n |-> a * k + 1] : a \in {0, 1}}

\* what shuffle(indices) can leave: every order of the rows
AllShuffles == Permutations(1..NSamples)

\* two of them: the rows in their order, and in the reverse order
TwoShuffles == {[i \in 1..NSamples |-> i], [i \in 1..NSamples |-> NSamples + 1 - i]}

\* every per-fold importance sample with values in -MaxAbs..MaxAbs
FoldSamples(n) == [1..n -> (0 - MaxAbs)..MaxAbs]

Running == {t \in DOMAIN status : status[t] = "running"}

\* a pool that starts a worker for every task it is given
WorkerPerTask == Cardinality(Running) < NTasks

\* Parallel(n_jobs=NJobs): at most n_jobs tasks are in the workers
WorkerFree == Cardinality(Running) < NJobs

\* the list Parallel returns: the results in the order of the generator
OutList == [t \in DOMAIN status |-> results[t].val]

\* a join that returns with the first result
AnyReturned == \E t \in DOMAIN status : status[t] = "done"

\* Parallel returns once every task has returned
AllReturned == \A t \in DOMAIN status : status[t] = "done"

\* the examples modelled further below have not run
CpiIdle ==
    /\ imputers = <<>>
    /\ marginal_scores = <<>>

\* no CI run
CiIdle ==
    /\ commit_marker = None
    /\ modified = {}
    /\ lint = "pending"
    /\ tests = "pending"
    /\ docs = "pending"
    /\ examples_run = {}

\* the fMRI example has not run
FmriIdle ==
    /\ pval_dl = Unbound
    /\ one_minus_pval_dl = Unbound
    /\ pval_cdl = Unbound
    /\ one_minus_pval_cdl = Unbound
    /\ selected = Unbound
    /\ plotted = <<>>
    /\ printed = <<>>
    /\ raised_in_try = NoExc

\* the knockoff aggregation example has not run
KnockoffIdle ==
    /\ n_samples = None
    /\ seed_list = <<>>
    /\ worker_status = <<>>
    /\ worker_results = <<>>
    /\ finish_order = <<>>
    /\ knockoff_results = Unbound
    /\ fdps_mx = <<>>
    /\ fdps_pval = <<>>
    /\ fdps_eval = <<>>
    /\ powers_mx = <<>>
    /\ powers_pval = <<>>
    /\ powers_eval = <<>>

LaterIdle == CpiIdle /\ CiIdle /\ FmriIdle /\ KnockoffIdle

\* the loops over kept models have not run
ReuseIdle ==
    /\ fitted_estimators = <<>>
    /\ permutation_importances = <<>>
    /\ conditional_importances = <<>>

\* the other examples have not run
ExamplesIdle ==
    /\ ReuseIdle
    /\ LaterIdle
    /\ X_test = <<>>
    /\ y_test = <<>>
    /\ estimator = {}
    /\ sub_models = <<>>
    /\ permuted = <<>>
    /\ importances = Unbound

\* no cell of the classification example has run, no importance method is in use
NotebooksIdle ==
    /\ vim_names = DefaultVimNames
    /\ vims = <<>>
    /\ n_splits = 2
    /\ indices = <<>>
    /\ groups = <<>>
    /\ imp = <<>>
    /\ status = <<>>
    /\ results = <<>>
    /\ raised = <<>>
    /\ fitted = {}
    /\ out_list = Unbound
    /\ df = Unbound
    /\ df_pval = Unbound
    /\ pval_all = Unbound
    /\ error = NoExc
    /\ ReuseIdle
    /\ X_test = <<>>
    /\ y_test = <<>>
    /\ estimator = {}
    /\ sub_models = <<>>
    /\ permuted = <<>>
    /\ importances = Unbound

\* the state before the dispatch cell runs, the shuffle drawn from shuffles
InitWith(shuffles) ==
    /\ pc = "start"
    /\ vim_names = DefaultVimNames
    /\ vims = <<>>
    /\ n_splits \in 2..(NSamples + 1)
    /\ indices \in shuffles
    /\ groups \in GroupMappings
    /\ imp \in {ImportanceTable(n_splits, groups, s) : s \in LinearSamples(n_splits)}
    /\ status = <<>>
    /\ results = <<>>
    /\ raised = <<>>
    /\ fitted = {}
    /\ out_list = Unbound
    /\ df = Unbound
    /\ df_pval = Unbound
    /\ pval_all = Unbound
    /\ error = NoExc
    /\ ExamplesIdle

\* cv.split(X) is first advanced when Parallel draws the first task: it raises
\* ValueError when n_splits > n_samples, before any task exists
Dispatch ==
    /\ pc = "start"
    /\ IF n_splits > NSamples
       THEN /\ pc' = "failed"
            /\ error' = Exc("ValueError", "cv.split")
            /\ UNCHANGED <<status, results, raised, vims>>
       ELSE /\ pc' = "dispatch"
            /\ status' = [t \in Tasks |-> "pending"]
            /\ results' = [t \in Tasks |-> Unbound]
            /\ raised' = [t \in Tasks |-> NoExc]
            /\ vims' = [t \in Tasks |-> Unbound]
            /\ error' = error
    /\ UNCHANGED <<n_splits, indices, groups, imp, fitted, out_list, df, df_pval, pval_all>>
    /\ UNCHANGED <<vim_names, exampleVars>>

\* Once a task has raised Parallel is aborting: it hands out no further task and
\* stops its workers, so the tasks in flight return nothing
Aborting == \E t \in DOMAIN status : status[t] = "raised"

\* a worker takes the next task of the generator
StartTask(t) ==
    /\ pc = "dispatch"
    /\ ~Aborting
    /\ status[t] = "pending"
    /\ \A u \in 1..(t - 1) : status[u] # "pending"
    /\ WorkerFree
    /\ status' = [status EXCEPT ![t] = "running"]
    /\ UNCHANGED <<pc, n_splits, indices, groups, imp, results, fitted, raised,
                   out_list, df, df_pval, pval_all, error>>
    /\ UNCHANGED <<vim_names, vims, exampleVars>>

\* a collection keyed by the fold alone: the frame a task returns replaces the frames
\* of the other tasks on its fold
FinishTaskKeyedByFold(t) ==
    /\ pc = "dispatch"
    /\ ~Aborting
    /\ status[t] = "running"
    /\ \E fitRaises, auxRaises, lossRaises \in BOOLEAN :
         LET r == RunOneFold(t, fitRaises, auxRaises, lossRaises)
         IN  /\ status' = [status EXCEPT ![t] = IF r.exc = NoExc THEN "done" ELSE "raised"]
             /\ results' = [u \in DOMAIN results |->
                                IF FoldOf(u) = FoldOf(t) THEN r.frame ELSE results[u]]
             /\ raised' = [raised EXCEPT ![t] = r.exc]
             /\ fitted' = IF r.fit THEN fitted \cup {t} ELSE fitted
             /\ vims' = [vims EXCEPT ![t] = IF r.fit THEN MakeVim(t) ELSE Unbound]
    /\ UNCHANGED <<pc, n_splits, indices, groups, imp, out_list, df, df_pval, pval_all, error>>
    /\ UNCHANGED <<vim_names, exampleVars>>

\* a worker runs run_one_fold(...) to its return or to its exception
FinishTask(t) ==
    /\ pc = "dispatch"
    /\ ~Aborting
    /\ status[t] = "running"
    /\ \E fitRaises, auxRaises, lossRaises \in BOOLEAN :
         LET r == RunOneFold(t, fitRaises, auxRaises, lossRaises)
         IN  /\ status' = [status EXCEPT ![t] = IF r.exc = NoExc THEN "done" ELSE "raised"]
             /\ results' = [results EXCEPT ![t] = r.frame]
             /\ raised' = [raised EXCEPT ![t] = r.exc]
             /\ fitted' = IF r.fit THEN fitted \cup {t} ELSE fitted
             /\ vims' = [vims EXCEPT ![t] = IF r.fit THEN MakeVim(t) ELSE Unbound]
    /\ UNCHANGED <<pc, n_splits, indices, groups, imp, out_list, df, df_pval, pval_all, error>>
    /\ UNCHANGED <<vim_names, exampleVars>>

\* out_list = Parallel(n_jobs=5)(...); df = pd.concat(out_list)
Join ==
    /\ pc = "dispatch"
    /\ AllReturned
    /\ out_list' = Bound(OutList)
    /\ df' = Bound(Flatten(OutList))
    /\ pc' = "collected"
    /\ UNCHANGED <<n_splits, indices, groups, imp, status, results, fitted, raised,
                   df_pval, pval_all, error>>
    /\ UNCHANGED <<vim_names, vims, exampleVars>>

\* a dispatch that drops the task that raised and returns the other results
ReraiseKeepOthers ==
    /\ pc = "dispatch"
    /\ Aborting
    /\ \E t \in DOMAIN status :
         /\ status[t] = "raised"
         /\ error' = raised[t]
    /\ out_list' = Bound(SelectSeq(OutList, LAMBDA f : f # <<>>))
    /\ df' = Bound(Flatten(SelectSeq(OutList, LAMBDA f : f # <<>>)))
    /\ pc' = "failed"
    /\ UNCHANGED <<n_splits, indices, groups, imp, status, results, fitted, raised,
                   df_pval, pval_all>>
    /\ UNCHANGED <<vim_names, vims, exampleVars>>

\* Parallel re-raises the exception of a task in the caller: out_list is never bound
Reraise ==
    /\ pc = "dispatch"
    /\ Aborting
    /\ \E t \in DOMAIN status :
         /\ status[t] = "raised"
         /\ error' = raised[t]
    /\ pc' = "failed"
    /\ UNCHANGED <<n_splits, indices, groups, imp, status, results, fitted, raised,
                   out_list, df, df_pval, pval_all>>
    /\ UNCHANGED <<vim_names, vims, exampleVars>>

\* a compute_pval that drops the rows it has read from df itself
ComputePvalInPlace ==
    /\ pc = "collected"
    /\ pval_all' = Bound(PvalList(df.val))
    /\ df_pval' = Bound(QueryBelow(PvalList(df.val)))
    /\ df' = Bound(Tail(df.val))
    /\ pc' = "pval"
    /\ UNCHANGED <<n_splits, indices, groups, imp, status, results, fitted, raised,
                   out_list, error>>
    /\ UNCHANGED <<vim_names, vims, exampleVars>>

\* df_pval = compute_pval(df, threshold=threshold)
ComputePval ==
    /\ pc = "collected"
    /\ pval_all' = Bound(PvalList(df.val))
    /\ df_pval' = Bound(QueryBelow(PvalList(df.val)))
    /\ pc' = "pval"
    /\ UNCHANGED <<n_splits, indices, groups, imp, status, results, fitted, raised,
                   out_list, df, error>>
    /\ UNCHANGED <<vim_names, vims, exampleVars>>

\* the cell is run again: df_pval = compute_pval(df, threshold=threshold) on the
\* df the first call has read
ComputePvalAgain ==
    /\ pc = "pval"
    /\ pval_all' = Bound(PvalList(df.val))
    /\ df_pval' = Bound(QueryBelow(PvalList(df.val)))
    /\ pc' = "pval2"
    /\ UNCHANGED <<n_splits, indices, groups, imp, status, results, fitted, raised,
                   out_list, df, error>>
    /\ UNCHANGED <<vim_names, vims, exampleVars>>

Next ==
    \/ Dispatch
    \/ \E t \in DOMAIN status : StartTask(t)
    \/ \E t \in DOMAIN status : FinishTask(t)
    \/ Join
    \/ Reraise
    \/ ComputePval

Init == InitWith(TwoShuffles)

Spec == Init /\ [][Next]_vars

\* the state before a dispatch that passes no groups to run_one_fold
InitDefaultGroups ==
    /\ pc = "start"
    /\ vim_names = DefaultVimNames
    /\ vims = <<>>
    /\ n_splits \in 2..(NSamples + 1)
    /\ indices \in TwoShuffles
    /\ groups = NoGroups
    /\ imp \in {ImportanceTable(n_splits, IndividualGroups, s) : s \in LinearSamples(n_splits)}
    /\ status = <<>>
    /\ results = <<>>
    /\ raised = <<>>
    /\ fitted = {}
    /\ out_list = Unbound
    /\ df = Unbound
    /\ df_pval = Unbound
    /\ pval_all = Unbound
    /\ error = NoExc
    /\ ExamplesIdle

\* no task returns a frame, so Parallel never returns: the dispatch ends in Reraise
NextDefaultGroups ==
    \/ Dispatch
    \/ \E t \in DOMAIN status : StartTask(t)
    \/ \E t \in DOMAIN status : FinishTask(t)
    \/ Reraise

SpecDefaultGroups == InitDefaultGroups /\ [][NextDefaultGroups]_vars

\* lists of names for the dispatch that hold a name run_one_fold has no branch for
UnknownVimNames == {<<"LOCO">>, <<"cpi">>, <<"CPI", "LOCO">>, <<"LOCO", "PFI">>}

\* the state before a dispatch over such a list
InitUnknownVim ==
    /\ pc = "start"
    /\ vim_names \in UnknownVimNames
    /\ vims = <<>>
    /\ n_splits \in 2..(NSamples + 1)
    /\ indices \in TwoShuffles
    /\ groups \in {IndividualGroups, FeatureGroups}
    /\ imp \in {ImportanceTable(n_splits, groups, s) : s \in LinearSamples(n_splits)}
    /\ status = <<>>
    /\ results = <<>>
    /\ raised = <<>>
    /\ fitted = {}
    /\ out_list = Unbound
    /\ df = Unbound
    /\ df_pval = Unbound
    /\ pval_all = Unbound
    /\ error = NoExc
    /\ ExamplesIdle

\* a task with the unknown name returns no frame, so Parallel never returns: the
\* dispatch ends in Reraise, as in NextDefaultGroups
SpecUnknownVim == InitUnknownVim /\ [][NextDefaultGroups]_vars

\* the splitter alone, over every shuffle
InitSplit == InitWith(AllShuffles)

SpecSplit == InitSplit /\ [][Dispatch]_vars

(* ------------------- the significance step on its own ----------------- *)

\* the state in which df has just been concatenated, for a dataset whose per-fold
\* importances are any sample with values in -MaxAbs..MaxAbs
InitPval ==
    /\ pc = "collected"
    /\ vim_names = DefaultVimNames
    /\ n_splits \in 2..NSamples
    /\ indices = [i \in 1..NSamples |-> i]
    /\ groups = IndividualGroups
    /\ imp \in {ImportanceTable(n_splits, groups, s) : s \in FoldSamples(n_splits)}
    /\ status = [t \in Tasks |-> "done"]
    /\ results = [t \in Tasks |-> RunOneFold(t, FALSE, FALSE, FALSE).frame]
    /\ raised = [t \in Tasks |-> NoExc]
    /\ fitted = Tasks
    /\ vims = [t \in Tasks |-> MakeVim(t)]
    /\ out_list = Bound(OutList)
    /\ df = Bound(Flatten(OutList))
    /\ df_pval = Unbound
    /\ pval_all = Unbound
    /\ error = NoExc
    /\ ExamplesIdle

SpecPval == InitPval /\ [][ComputePval]_vars

\* the significance step applied twice to the same df
NextPvalTwice == ComputePval \/ ComputePvalAgain

SpecPvalTwice == InitPval /\ [][NextPvalTwice]_vars

(* ------------- fitted models kept and used by two methods ------------- *)

\* the variables of the classification example, pc apart
driverVars == <<groups, imp, status, results, fitted, raised, out_list, df, df_pval,
               pval_all, error, vim_names, vims>>

\* a splitter whose generator goes on from call to call: the c-th call of split
\* shuffles the rows another way
ShuffleAdvancing(c) == [i \in 1..NSamples |-> indices[((i + c - 2) % NSamples) + 1]]

\* kf = KFold(n_splits=5, shuffle=True, random_state=0): with an integer
\* random_state every call of kf.split(X) seeds its own generator, so the c-th call
\* shuffles the rows as the first one did
ShuffleOfCall(c) == indices

\* test_index and train_index of the k-th fold of the c-th call of kf.split(X)
TestIndexOfCall(c, k) ==
    { ShuffleOfCall(c)[i] : i \in (FoldStart(k) + 1)..(FoldStart(k) + FoldSize(k)) }

TrainIndexOfCall(c, k) == (1..NSamples) \ TestIndexOfCall(c, k)

\* the next pc of a loop over the folds: on in the loop or, after the last fold, at after
LoopPc(i, here, after) == IF i = n_splits THEN after ELSE here

\* for train_index, test_index in kf.split(X): model_c = clone(model).fit(X_train,
\* y_train); fitted_estimators.append(model_c); scores.append(r2_score(y_test, y_pred))
FitEstimator ==
    /\ pc = "fit"
    /\ LET i == Len(fitted_estimators) + 1
       IN  /\ fitted_estimators' =
                Append(fitted_estimators,
                       [fold |-> i,
                        train |-> TrainIndexOfCall(1, i),
                        scored |-> TestIndexOfCall(1, i)])
           /\ pc' = LoopPc(i, "fit", "pfi")
    /\ UNCHANGED <<n_splits, indices, driverVars, vimVars, laterVars, permutation_importances,
                   conditional_importances>>

\* for i, (train_index, test_index) in enumerate(kf.split(X)):
\* model_c = fitted_estimators[i]; pfi = PFI(model_c, ...); pfi.fit(X_test, y_test);
\* permutation_importances.append(pfi.importance(X_test, y_test)["importance"])
PfiFold ==
    /\ pc = "pfi"
    /\ LET i == Len(permutation_importances) + 1
       IN  /\ permutation_importances' =
                Append(permutation_importances,
                       [model_c |-> fitted_estimators[i],
                        fit_rows |-> TestIndexOfCall(2, i),
                        rows |-> TestIndexOfCall(2, i)])
           /\ pc' = LoopPc(i, "pfi", "cpi")
    /\ UNCHANGED <<n_splits, indices, driverVars, vimVars, laterVars, fitted_estimators,
                   conditional_importances>>

\* the same loop with cpi = CPI(model_c, ...); cpi.fit(X_test, y_test);
\* conditional_importances.append(cpi.importance(X_test, y_test)["importance"])
CpiFold ==
    /\ pc = "cpi"
    /\ LET i == Len(conditional_importances) + 1
       IN  /\ conditional_importances' =
                Append(conditional_importances,
                       [model_c |-> fitted_estimators[i],
                        fit_rows |-> TestIndexOfCall(3, i),
                        rows |-> TestIndexOfCall(3, i)])
           /\ pc' = LoopPc(i, "cpi", "end")
    /\ UNCHANGED <<n_splits, indices, driverVars, vimVars, laterVars, fitted_estimators,
                   permutation_importances>>

\* the state before the fitting loop, for every number of folds and every shuffle
InitReuse ==
    /\ pc = "fit"
    /\ vim_names = DefaultVimNames
    /\ vims = <<>>
    /\ n_splits \in 2..NSamples
    /\ indices \in AllShuffles
    /\ groups = IndividualGroups
    /\ imp = <<>>
    /\ status = <<>>
    /\ results = <<>>
    /\ raised = <<>>
    /\ fitted = {}
    /\ out_list = Unbound
    /\ df = Unbound
    /\ df_pval = Unbound
    /\ pval_all = Unbound
    /\ error = NoExc
    /\ ExamplesIdle

NextReuse == FitEstimator \/ PfiFold \/ CpiFold

SpecReuse == InitReuse /\ [][NextReuse]_vars

(* ------------------- one call of an importance method ----------------- *)

\* a groups dict with one group that holds every column
JointGroups == <<[name |-> <<"group", 1>>, cols |-> 1..NFeatures]>>

\* estimator.predict(X) of a fitted model that reads the columns S of a 0/1 matrix
\* and predicts their parity
Predict(S, X) == [i \in 1..Len(X) |-> Cardinality({j \in S : X[i][j] = 1}) % 2]

\* loss(y, y_pred) of a loss that counts the rows predicted wrongly (the mean loss
\* times the number of rows)
Loss(y, y_pred) == Cardinality({i \in 1..Len(y) : y[i] # y_pred[i]})

\* the n-th permutation of rows rows drawn by a generator seeded with seed
DrawPermutationOf(rows, seed, n) == [i \in 1..rows |-> ((i - 1 + seed + n) % rows) + 1]

\* the n-th permutation of the rows of X_test drawn by a generator seeded with seed
DrawPermutation(seed, n) == DrawPermutationOf(NTest, seed, n)

\* a copy that reorders whole rows, the columns outside cols with them
PermutedCopyAllColumns(X, cols, perm) == [i \in 1..Len(X) |-> X[perm[i]]]

\* a copy that reorders each column of cols by an order of its own: perm moved on
\* by the number of the column
PermutedCopyPerColumn(X, cols, perm) ==
    [i \in 1..Len(X) |->
        [j \in DOMAIN X[i] |->
            IF j \in cols THEN X[perm[((i + j - 2) % Len(X)) + 1]][j] ELSE X[i][j]]]

\* X with the rows of the columns cols reordered by perm, all of them by the same
\* perm, and the other columns as they are
PermutedCopy(X, cols, perm) ==
    [i \in 1..Len(X) |->
        [j \in DOMAIN X[i] |-> IF j \in cols THEN X[perm[i]][j] ELSE X[i][j]]]

\* PFI: the n_permutations copies of X made for the group at position gi of g, the
\* generator seeded with random_state=0 and drawn from group after group
PermutedCopies(X, g, gi) ==
    [r \in 1..NPermutations |->
        PermutedCopy(X, g[gi].cols, DrawPermutation(0, (gi - 1) * NPermutations + r))]

\* np.mean(loss of the copies) - loss_reference, as the fraction num / den
MeanLossIncrease(S, y, X, copies) ==
    [num |-> SumSeq([r \in 1..Len(copies) |-> Loss(y, Predict(S, copies[r]))])
                 - Len(copies) * Loss(y, Predict(S, X)),
     den |-> Len(copies)]

\* LOCO: the model refitted on the columns left when cols are removed keeps what the
\* full model reads of them
SubModel(S, cols) == S \ cols

\* a difference taken the other way round: loss_reference - loss of the sub-model
LossDifferenceReversed(S, sub, y, X) ==
    [num |-> Loss(y, Predict(S, X)) - Loss(y, Predict(sub, X)), den |-> 1]

\* loss of the sub-model - loss_reference, as the fraction num / den
LossDifference(S, sub, y, X) ==
    [num |-> Loss(y, Predict(sub, X)) - Loss(y, Predict(S, X)), den |-> 1]

\* the importance of a column on its own, the generator drawn from column after
\* column
ColumnImportance(j) ==
    MeanLossIncrease(estimator, y_test, X_test, PermutedCopies(X_test, IndividualGroups, j))

\* the importances of the columns of the group at position gi, added up
SummedImportance(gi) ==
    [num |-> SumSeq([j \in 1..NFeatures |->
                        IF j \in groups[gi].cols THEN ColumnImportance(j).num ELSE 0]),
     den |-> NPermutations]

\* an importance method that gives a group the sum of the importances of its columns
PfiImportanceSummed ==
    /\ pc = "vim"
    /\ permuted' = [gi \in 1..Len(groups) |-> PermutedCopies(X_test, groups, gi)]
    /\ importances' = Bound([gi \in 1..Len(groups) |-> SummedImportance(gi)])
    /\ pc' = "pfi_importance"
    /\ UNCHANGED <<n_splits, indices, driverVars, reuseVars, laterVars, X_test, y_test, estimator,
                   sub_models>>

\* pfi.importance(X_test, y_test)["importance"]: one value per group
PfiImportance ==
    /\ pc = "vim"
    /\ permuted' = [gi \in 1..Len(groups) |-> PermutedCopies(X_test, groups, gi)]
    /\ importances' =
         Bound([gi \in 1..Len(groups) |->
                   MeanLossIncrease(estimator, y_test, X_test,
                                    PermutedCopies(X_test, groups, gi))])
    /\ pc' = "pfi_importance"
    /\ UNCHANGED <<n_splits, indices, driverVars, reuseVars, laterVars, X_test, y_test, estimator,
                   sub_models>>

\* vim.fit(X[train], y[train]) of LOCO: one clone of the estimator refitted per group
LocoFit ==
    /\ pc = "vim"
    /\ sub_models' = [gi \in 1..Len(groups) |-> SubModel(estimator, groups[gi].cols)]
    /\ pc' = "loco_fit"
    /\ UNCHANGED <<n_splits, indices, driverVars, reuseVars, laterVars, X_test, y_test, estimator,
                   permuted, importances>>

\* vim.importance(X[test], y[test])["importance"] of LOCO: one value per group
LocoImportance ==
    /\ pc = "loco_fit"
    /\ importances' =
         Bound([gi \in 1..Len(groups) |->
                   LossDifference(estimator, sub_models[gi], y_test, X_test)])
    /\ pc' = "loco_importance"
    /\ UNCHANGED <<n_splits, indices, driverVars, reuseVars, laterVars, X_test, y_test, estimator,
                   sub_models, permuted>>

\* a fitted model and a test partition of a dataset whose target is the XOR of the
\* columns: every 0/1 matrix, every set of columns the model may read, groups of one
\* column and one group of all columns
InitVim ==
    /\ pc = "vim"
    /\ vim_names = DefaultVimNames
    /\ vims = <<>>
    /\ n_splits = 2
    /\ indices = [i \in 1..NSamples |-> i]
    /\ groups \in {IndividualGroups, JointGroups}
    /\ imp = <<>>
    /\ status = <<>>
    /\ results = <<>>
    /\ raised = <<>>
    /\ fitted = {}
    /\ out_list = Unbound
    /\ df = Unbound
    /\ df_pval = Unbound
    /\ pval_all = Unbound
    /\ error = NoExc
    /\ ReuseIdle
    /\ LaterIdle
    /\ X_test \in [1..NTest -> [1..NFeatures -> 0..1]]
    /\ y_test = Predict(1..NFeatures, X_test)
    /\ estimator \in SUBSET (1..NFeatures)
    /\ sub_models = <<>>
    /\ permuted = <<>>
    /\ importances = Unbound

NextVim == PfiImportance \/ LocoFit \/ LocoImportance

SpecVim == InitVim /\ [][NextVim]_vars

(* ------------------------------ one call of CPI ----------------------- *)

\* the auxiliary models vim.fit may have fitted for a group: one that predicts the
\* same value for every row, and one that predicts from the columns outside the group
ImputerKinds == {"constant", "others"}

\* imputation_model.predict of the auxiliary model of the columns cols, for row i of X
ImputerPredict(kind, X, cols, i) ==
    IF kind = "constant"
    THEN 0
    ELSE Cardinality({k \in DOMAIN X[i] \ cols : X[i][k] = 1}) % 2

\* observed minus predicted, for column j of the group cols in row i of X
Residual(kind, X, cols, i, j) == X[i][j] - ImputerPredict(kind, X, cols, i)

\* a copy that reorders the observed values of the group and not its residuals
ConditionalCopyRawValues(X, cols, kind, perm) == PermutedCopy(X, cols, perm)

\* X with the columns cols replaced by the prediction of the auxiliary model plus the
\* residual of the row perm[i], and the other columns as they are
ConditionalCopy(X, cols, kind, perm) ==
    [i \in 1..Len(X) |->
        [j \in DOMAIN X[i] |->
            IF j \in cols
            THEN ImputerPredict(kind, X, cols, i) + Residual(kind, X, cols, perm[i], j)
            ELSE X[i][j]]]

\* CPI: the n_permutations copies of X made for the group at position gi of g, the
\* generator seeded with random_state=0 and drawn from group after group
ConditionalCopies(X, g, gi, kinds) ==
    [r \in 1..NPermutations |->
        ConditionalCopy(X, g[gi].cols, kinds[gi],
                        DrawPermutationOf(Len(X), 0, (gi - 1) * NPermutations + r))]

\* vim.fit(X_train, y_train) of CPI: one auxiliary model fitted per group
CpiFit ==
    /\ pc = "cpi_vim"
    /\ \E kind \in ImputerKinds : imputers' = [gi \in 1..Len(groups) |-> kind]
    /\ pc' = "cpi_fit"
    /\ UNCHANGED <<n_splits, indices, driverVars, reuseVars, vimVars, marginal_scores, ciVars, fmriVars, knockoffVars>>

\* vim.importance(X_test, y_test)["importance"] of CPI: one value per group
CpiImportance ==
    /\ pc = "cpi_fit"
    /\ permuted' = [gi \in 1..Len(groups) |-> ConditionalCopies(X_test, groups, gi, imputers)]
    /\ importances' =
         Bound([gi \in 1..Len(groups) |->
                   MeanLossIncrease(estimator, y_test, X_test,
                                    ConditionalCopies(X_test, groups, gi, imputers))])
    /\ pc' = "cpi_importance"
    /\ UNCHANGED <<n_splits, indices, driverVars, reuseVars, X_test, y_test, estimator,
                   sub_models, cpiVars, ciVars, fmriVars, knockoffVars>>

\* a fitted model and a test partition as in InitVim, before CPI is fitted
InitCpi ==
    /\ pc = "cpi_vim"
    /\ vim_names = DefaultVimNames
    /\ vims = <<>>
    /\ n_splits = 2
    /\ indices = [i \in 1..NSamples |-> i]
    /\ groups \in {IndividualGroups, JointGroups}
    /\ imp = <<>>
    /\ status = <<>>
    /\ results = <<>>
    /\ raised = <<>>
    /\ fitted = {}
    /\ out_list = Unbound
    /\ df = Unbound
    /\ df_pval = Unbound
    /\ pval_all = Unbound
    /\ error = NoExc
    /\ ReuseIdle
    /\ LaterIdle
    /\ X_test \in [1..NTest -> [1..NFeatures -> 0..1]]
    /\ y_test = Predict(1..NFeatures, X_test)
    /\ estimator \in SUBSET (1..NFeatures)
    /\ sub_models = <<>>
    /\ permuted = <<>>
    /\ importances = Unbound

NextCpi == CpiFit \/ CpiImportance

SpecCpi == InitCpi /\ [][NextCpi]_vars

(* --------------------------- the XOR example -------------------------- *)

\* X = rng.randn(400, 2): the number of columns of the XOR dataset
XorFeatures == 2

\* the sign patterns a row of the XOR dataset can have: entry j is 1 when X[:, j] > 0
XorPatterns == [1..XorFeatures -> 0..1]

\* a test partition in which every sign pattern occurs equally often (once)
XorRows == Cardinality(XorPatterns)

\* a label that follows the sign of the first column alone
FirstSignLabel(X) == [i \in 1..Len(X) |-> X[i][1]]

\* Y = np.logical_xor(X[:, 0] > 0, X[:, 1] > 0)
XorLabel(X) == [i \in 1..Len(X) |-> IF (X[i][1] = 1) # (X[i][2] = 1) THEN 1 ELSE 0]

\* the balanced test partitions, in every order of their rows
XorPartitions ==
    {X \in [1..XorRows -> XorPatterns] : \A a, b \in 1..XorRows : X[a] = X[b] => a = b}

\* the models a univariate fit can return: the label as a function of the sign of
\* the one column the model sees
UnivariateModels == [0..1 -> 0..1]

\* univariate_model.score(X_test_univariate, y_test): the rows of column j labelled
\* rightly (the accuracy times the number of rows)
UnivariateScore(f, X, y, j) == Cardinality({r \in 1..Len(X) : f[X[r][j]] = y[r]})

\* CPI without groups: every column is a group of its own
XorGroups == [j \in 1..XorFeatures |-> [name |-> <<"x", j>>, cols |-> {j}]]

\* one pass of the loop over the features of the marginal cell, for one fold: a clone
\* of clf fitted on one column of the training partition and scored on the same
\* column of the test partition
MarginalScore ==
    /\ pc = "xor"
    /\ LET j == Len(marginal_scores) + 1
       IN  /\ \E f \in UnivariateModels :
                 marginal_scores' =
                     Append(marginal_scores,
                            [feature |-> j, model |-> f,
                             score |-> UnivariateScore(f, X_test, y_test, j)])
           /\ pc' = IF j = XorFeatures THEN "xor_marginal" ELSE "xor"
    /\ UNCHANGED <<n_splits, indices, driverVars, reuseVars, vimVars, imputers, ciVars, fmriVars,
                   knockoffVars>>

\* one pass of the CPI loop: clf_c fitted on the training partition (it has learned
\* the XOR of the two signs), CPI fitted on it (the columns are independent, so each
\* auxiliary model predicts a constant) and the importance taken on the test partition
XorCpiFold ==
    /\ pc = "xor_marginal"
    /\ estimator' = 1..XorFeatures
    /\ imputers' = [gi \in 1..XorFeatures |-> "constant"]
    /\ permuted' = [gi \in 1..XorFeatures |->
                       ConditionalCopies(X_test, XorGroups, gi, imputers')]
    /\ importances' =
         Bound([gi \in 1..XorFeatures |->
                   MeanLossIncrease(estimator', y_test, X_test,
                                    ConditionalCopies(X_test, XorGroups, gi, imputers'))])
    /\ pc' = "xor_cpi"
    /\ UNCHANGED <<n_splits, indices, driverVars, reuseVars, X_test, y_test, sub_models,
                   marginal_scores, ciVars, fmriVars, knockoffVars>>

\* the XOR data of one fold: a balanced test partition and its labels
InitXor ==
    /\ pc = "xor"
    /\ vim_names = DefaultVimNames
    /\ vims = <<>>
    /\ n_splits = 5
    /\ indices = <<>>
    /\ groups = XorGroups
    /\ imp = <<>>
    /\ status = <<>>
    /\ results = <<>>
    /\ raised = <<>>
    /\ fitted = {}
    /\ out_list = Unbound
    /\ df = Unbound
    /\ df_pval = Unbound
    /\ pval_all = Unbound
    /\ error = NoExc
    /\ ReuseIdle
    /\ LaterIdle
    /\ X_test \in XorPartitions
    /\ y_test = XorLabel(X_test)
    /\ estimator = {}
    /\ sub_models = <<>>
    /\ permuted = <<>>
    /\ importances = Unbound

NextXor == MarginalScore \/ XorCpiFold

SpecXor == InitXor /\ [][NextXor]_vars

(* --------------------------- the CI pipeline -------------------------- *)

\* the markers of the commit message table, and None for a message without marker
CommitMarkers == {None, "[skip tests]", "[doc skip]", "[doc quick]", "[doc change]"}

\* the examples of the gallery
Examples == {"plot_conditional_vs_marginal_xor_data", "plot_knockoff_aggregation",
             "plot_fmri_data_example"}

\* the examples a documentation build executes
ExamplesToRun ==
    CASE commit_marker = "[doc quick]" -> {}
      [] commit_marker = "[doc change]" -> modified
      [] OTHER -> Examples

\* the static analysis by the linter (Black)
RunLint ==
    /\ pc = "ci"
    /\ lint = "pending"
    /\ lint' \in {"passed", "failed"}
    /\ UNCHANGED <<pc, n_splits, indices, driverVars, reuseVars, vimVars, cpiVars, fmriVars,
                   knockoffVars,
                   commit_marker, modified, tests, docs, examples_run>>

\* the tests on the supported configurations; [skip tests]: the tests are not run
RunTests ==
    /\ pc = "ci"
    /\ tests = "pending"
    /\ IF commit_marker = "[skip tests]"
       THEN tests' = "skipped"
       ELSE tests' \in {"passed", "failed"}
    /\ UNCHANGED <<pc, n_splits, indices, driverVars, reuseVars, vimVars, cpiVars, fmriVars,
                   knockoffVars,
                   commit_marker, modified, lint, docs, examples_run>>

\* a pipeline that builds the documentation whatever the lint and the tests gave
BuildDocsUnconditionally ==
    /\ pc = "ci"
    /\ docs = "pending"
    /\ commit_marker # "[doc skip]"
    /\ docs' = "built"
    /\ examples_run' = ExamplesToRun
    /\ UNCHANGED <<pc, n_splits, indices, driverVars, reuseVars, vimVars, cpiVars, fmriVars,
                   knockoffVars,
                   commit_marker, modified, lint, tests>>

\* the documentation build, which executes the examples; [doc skip]: docs are not
\* built. It waits for the tests, and for the linter when it has examples to execute
BuildDocs ==
    /\ pc = "ci"
    /\ docs = "pending"
    /\ commit_marker # "[doc skip]"
    /\ tests \in {"passed", "skipped"}
    /\ ExamplesToRun # {} => lint = "passed"
    /\ docs' = "built"
    /\ examples_run' = ExamplesToRun
    /\ UNCHANGED <<pc, n_splits, indices, driverVars, reuseVars, vimVars, cpiVars, fmriVars,
                   knockoffVars,
                   commit_marker, modified, lint, tests>>

\* a pull request whose commit message carries at most one marker
InitCi ==
    /\ pc = "ci"
    /\ NotebooksIdle
    /\ CpiIdle
    /\ FmriIdle
    /\ KnockoffIdle
    /\ commit_marker \in CommitMarkers
    /\ modified \in SUBSET Examples
    /\ lint = "pending"
    /\ tests = "pending"
    /\ docs = "pending"
    /\ examples_run = {}

NextCi == RunLint \/ RunTests \/ BuildDocs

SpecCi == InitCi /\ [][NextCi]_vars

(* --------------------------- the fMRI example ------------------------- *)

\* a p-value map: per voxel whether the p-value is low or high
PvalMaps == [1..NFeatures -> {"low", "high"}]

\* the one-minus map of a p-value map
OneMinus(m) == [v \in 1..Len(m) |-> IF m[v] = "low" THEN "high" ELSE "low"]

\* the selections of ensemble_clustered_inference_pvalue: -1, 0 or 1 per voxel
SelectionMaps == [1..NFeatures -> -1..1]

\* a name bound to None
NoneValue == Bound(<<None>>)

\* what a call inside the try block can do: return, or raise one of these
CallOutcomes == {"ok", "MemoryError", "ValueError"}

\* the exception the try block raises when its two calls end as first and second
RaisedInTry(first, second) ==
    IF first # "ok" THEN Exc(first, "desparsified_lasso")
    ELSE IF second # "ok" THEN Exc(second, "desparsified_lasso_pvalue")
    ELSE NoExc

\* what the cells of the fMRI example leave alone, error and their own names apart
fmriFrame == <<n_splits, indices, groups, imp, status, results, fitted, raised, out_list,
               df, df_pval, pval_all, vim_names, vims, reuseVars, vimVars, cpiVars, ciVars,
               knockoffVars>>

\* a handler that catches every exception: except Exception
DesparsifiedLassoCatchAll ==
    /\ pc = "fmri"
    /\ \E first, second \in CallOutcomes : \E m \in PvalMaps :
         LET exc == RaisedInTry(first, second)
         IN  /\ raised_in_try' = exc
             /\ IF exc = NoExc
                THEN /\ pval_dl' = Bound(m)
                     /\ one_minus_pval_dl' = Bound(OneMinus(m))
                     /\ printed' = printed
                ELSE /\ pval_dl' = NoneValue
                     /\ one_minus_pval_dl' = NoneValue
                     /\ printed' = Append(printed,
                                          "As expected, Desparsified Lasso uses too much memory.")
             /\ pc' = "fmri_cdl"
             /\ error' = error
    /\ UNCHANGED <<fmriFrame, pval_cdl, one_minus_pval_cdl, selected, plotted>>

\* try: desparsified_lasso(...); desparsified_lasso_pvalue(...)
\* except MemoryError as err: pval_dl = None; one_minus_pval_dl = None; print(...)
DesparsifiedLasso ==
    /\ pc = "fmri"
    /\ \E first, second \in CallOutcomes : \E m \in PvalMaps :
         LET exc == RaisedInTry(first, second)
         IN  /\ raised_in_try' = exc
             /\ IF exc = NoExc
                THEN /\ pval_dl' = Bound(m)
                     /\ one_minus_pval_dl' = Bound(OneMinus(m))
                     /\ printed' = printed
                     /\ pc' = "fmri_cdl"
                     /\ error' = error
                ELSE IF exc.type = "MemoryError"
                THEN /\ pval_dl' = NoneValue
                     /\ one_minus_pval_dl' = NoneValue
                     /\ printed' = Append(printed,
                                          "As expected, Desparsified Lasso uses too much memory.")
                     /\ pc' = "fmri_cdl"
                     /\ error' = error
                ELSE /\ UNCHANGED <<pval_dl, one_minus_pval_dl, printed>>
                     /\ pc' = "failed"
                     /\ error' = exc
    /\ UNCHANGED <<fmriFrame, pval_cdl, one_minus_pval_cdl, selected, plotted>>

\* clustered_inference(...); clustered_inference_pvalue(...)
ClusteredInference ==
    /\ pc = "fmri_cdl"
    /\ \E m \in PvalMaps :
         /\ pval_cdl' = Bound(m)
         /\ one_minus_pval_cdl' = Bound(OneMinus(m))
    /\ pc' = "fmri_encludl"
    /\ UNCHANGED <<fmriFrame, error, pval_dl, one_minus_pval_dl, selected, plotted, printed,
                   raised_in_try>>

\* ensemble_clustered_inference(...); ensemble_clustered_inference_pvalue(...)
EnsembleClusteredInference ==
    /\ pc = "fmri_encludl"
    /\ \E sel \in SelectionMaps : selected' = Bound(sel)
    /\ pc' = "fmri_plot"
    /\ UNCHANGED <<fmriFrame, error, pval_dl, one_minus_pval_dl, pval_cdl,
                   one_minus_pval_cdl, plotted, printed, raised_in_try>>

\* if pval_dl is not None: plot_map(..., "Desparsified Lasso"); plot_map(..., "CluDL");
\* plot_map(selected, 0.5, "EnCluDL", ...)
PlotMaps ==
    /\ pc = "fmri_plot"
    /\ plotted' = (IF pval_dl # NoneValue THEN <<"Desparsified Lasso">> ELSE <<>>)
                      \o <<"CluDL", "EnCluDL">>
    /\ pc' = "fmri_done"
    /\ UNCHANGED <<fmriFrame, error, pval_dl, one_minus_pval_dl, pval_cdl,
                   one_minus_pval_cdl, selected, printed, raised_in_try>>

\* the state before the cell of Desparsified Lasso
InitFmri ==
    /\ pc = "fmri"
    /\ NotebooksIdle
    /\ LaterIdle

NextFmri == DesparsifiedLasso \/ ClusteredInference \/ EnsembleClusteredInference \/ PlotMaps

SpecFmri == InitFmri /\ [][NextFmri]_vars

(* ------------------- the knockoff aggregation example ----------------- *)

\* the names of the six values single_run returns, in the order of its return
Metrics == <<"fdp_mx", "fdp_pval", "fdp_eval", "power_mx", "power_pval", "power_eval">>

\* single_run(n_samples, ..., seed=seed): data, knockoffs and bootstraps are all drawn
\* from seed, so each value it returns is a function of n_samples and seed
SingleRun(n, seed) == [k \in 1..Len(Metrics) |-> <<Metrics[k], n, seed>>]

\* seed_list = rng.randint(1, np.iinfo(np.int32).max, runs): any seeds, repeated or not
SeedLists == [1..NRuns -> 1..MaxSeed]

\* what effect_number_samples leaves alone
knockoffFrame == <<n_splits, indices, driverVars, reuseVars, vimVars, cpiVars, ciVars,
                   fmriVars>>

\* the runs a worker of Parallel(n_jobs) is busy with
RunsRunning == {i \in DOMAIN worker_status : worker_status[i] = "running"}

\* Parallel hands the run of the next seed to a free worker, seed after seed
StartRun(i) ==
    /\ pc = "knockoff"
    /\ worker_status[i] = "pending"
    /\ \A j \in 1..(i - 1) : worker_status[j] # "pending"
    /\ Cardinality(RunsRunning) < NJobs
    /\ worker_status' = [worker_status EXCEPT ![i] = "running"]
    /\ UNCHANGED <<pc, knockoffFrame, n_samples, seed_list, worker_results, finish_order,
                   knockoff_results, fdps_mx, fdps_pval, fdps_eval, powers_mx, powers_pval,
                   powers_eval>>

\* a worker returns from single_run
FinishRun(i) ==
    /\ pc = "knockoff"
    /\ worker_status[i] = "running"
    /\ worker_status' = [worker_status EXCEPT ![i] = "done"]
    /\ worker_results' = [worker_results EXCEPT ![i] = SingleRun(n_samples, seed_list[i])]
    /\ finish_order' = Append(finish_order, i)
    /\ UNCHANGED <<pc, knockoffFrame, n_samples, seed_list, knockoff_results, fdps_mx,
                   fdps_pval, fdps_eval, powers_mx, powers_pval, powers_eval>>

\* a parallel call that returns the results as the workers have finished
ParallelReturnsAsCompleted ==
    /\ pc = "knockoff"
    /\ \A i \in DOMAIN worker_status : worker_status[i] = "done"
    /\ knockoff_results' =
         Bound([k \in 1..Len(finish_order) |-> worker_results[finish_order[k]]])
    /\ pc' = "knockoff_collected"
    /\ UNCHANGED <<knockoffFrame, n_samples, seed_list, worker_status, worker_results,
                   finish_order, fdps_mx, fdps_pval, fdps_eval, powers_mx, powers_pval,
                   powers_eval>>

\* results = parallel(delayed(single_run)(...) for seed in seed_list): the list of the
\* returned tuples in the order of the generator, once every run has returned
ParallelReturns ==
    /\ pc = "knockoff"
    /\ \A i \in DOMAIN worker_status : worker_status[i] = "done"
    /\ knockoff_results' = Bound([i \in 1..Len(seed_list) |-> worker_results[i]])
    /\ pc' = "knockoff_collected"
    /\ UNCHANGED <<knockoffFrame, n_samples, seed_list, worker_status, worker_results,
                   finish_order, fdps_mx, fdps_pval, fdps_eval, powers_mx, powers_pval,
                   powers_eval>>

\* the k-th values of the tuples of a list of results
Unzip(res, k) == [i \in 1..Len(res) |-> res[i][k]]

\* for fdp_mx, fdp_pval, fdp_eval, power_mx, power_pval, power_eval in results:
\* one append to each of the six lists per tuple
AppendLists ==
    /\ pc = "knockoff_collected"
    /\ fdps_mx' = Unzip(knockoff_results.val, 1)
    /\ fdps_pval' = Unzip(knockoff_results.val, 2)
    /\ fdps_eval' = Unzip(knockoff_results.val, 3)
    /\ powers_mx' = Unzip(knockoff_results.val, 4)
    /\ powers_pval' = Unzip(knockoff_results.val, 5)
    /\ powers_eval' = Unzip(knockoff_results.val, 6)
    /\ pc' = "knockoff_done"
    /\ UNCHANGED <<knockoffFrame, n_samples, seed_list, worker_status, worker_results,
                   finish_order, knockoff_results>>

\* effect_number_samples(n_samples=n_samples) and effect_number_samples(n_samples=50)
\* at the point where parallel(...) is called, for any seed_list
InitKnockoff ==
    /\ pc = "knockoff"
    /\ NotebooksIdle
    /\ CpiIdle
    /\ CiIdle
    /\ FmriIdle
    /\ n_samples \in {200, 50}
    /\ seed_list \in SeedLists
    /\ worker_status = [i \in 1..NRuns |-> "pending"]
    /\ worker_results = [i \in 1..NRuns |-> <<>>]
    /\ finish_order = <<>>
    /\ knockoff_results = Unbound
    /\ fdps_mx = <<>>
    /\ fdps_pval = <<>>
    /\ fdps_eval = <<>>
    /\ powers_mx = <<>>
    /\ powers_pval = <<>>
    /\ powers_eval = <<>>

NextKnockoff ==
    \/ \E i \in DOMAIN worker_status : StartRun(i)
    \/ \E i \in DOMAIN worker_status : FinishRun(i)
    \/ ParallelReturns
    \/ AppendLists

SpecKnockoff == InitKnockoff /\ [][NextKnockoff]_vars

(* ------------------------------- claims ------------------------------- *)

ModelNames == {Channel(models[i]).model_name : i \in 1..Len(models)}

VimNames == {vim_names[i] : i \in 1..Len(vim_names)}

\* the frame of task t when its permutations are drawn from a fresh RandomState(0)
ReferenceFrame(t) ==
    [i \in 1..Len(groups) |->
        [feature |-> groups[i].name,
         importance |-> imp[<<FoldOf(t), ModelOf(t), VimOf(t), i>>],
         vim |-> VimOf(t),
         model |-> Channel(ModelOf(t)).model_name,
         score |-> Score(t)]]

\* C1: once the dispatch has returned, every frame of out_list holds one row per
\* group, in key order, and df holds, for every (group, method, model), exactly
\* n_splits rows: one per fold, none missing, none twice.
C1_OneRecordPerGroupAndFold ==
    out_list.bound =>
        /\ Len(out_list.val) = NTasks
        /\ \A t \in Tasks :
             /\ Len(out_list.val[t]) = Len(groups)
             /\ \A i \in 1..Len(groups) : out_list.val[t][i].feature = groups[i].name
        /\ df.bound
        /\ \A m \in ModelNames, v \in VimNames, i \in 1..Len(groups) :
             Len(Filter(df.val, m, v, groups[i].name)) = n_splits

C1_Witness == pc = "collected" /\ n_splits = 3 /\ Len(groups) = 2 /\ Len(df.val) = 24

\* C2: for 2 <= n_splits <= n_samples, train and test indices of a fold are
\* disjoint and together are all the rows, the test sets of two folds are disjoint,
\* and every row is in the test set of exactly one fold.
C2_FoldsPartitionSamples ==
    (2 <= n_splits /\ n_splits <= NSamples) =>
        /\ \A k \in 1..NFolds :
             /\ TestIndex(k) \cap TrainIndex(k) = {}
             /\ TestIndex(k) \cup TrainIndex(k) = 1..NSamples
        /\ \A j, k \in 1..NFolds : j # k => TestIndex(j) \cap TestIndex(k) = {}
        /\ \A r \in 1..NSamples : Cardinality({k \in 1..NFolds : r \in TestIndex(k)}) = 1

C2_Witness ==
    /\ pc = "dispatch"
    /\ NSamples % n_splits # 0
    /\ indices # [i \in 1..NSamples |-> i]
    /\ \E j, k \in 1..NFolds : Cardinality(TestIndex(j)) # Cardinality(TestIndex(k))

\* C3: no p-value exists while a dispatched task is pending or running: whenever
\* compute_pval has run, every task of the dispatch has returned.
C3_PvalOnlyAfterJoin ==
    (pval_all.bound \/ df_pval.bound \/ pc = "pval") =>
        /\ status # <<>>
        /\ \A t \in DOMAIN status : status[t] = "done"

C3_Witness == pc = "pval" /\ pval_all.bound /\ NTasks = 12

\* C4: the record collection of a completed run is a function of the dataset, the
\* split and the seed alone: whatever the order in which the workers took and
\* finished the tasks, out_list is the list of the frames in generator order, each
\* computed with the draws of a fresh RandomState(0), and df is its concatenation.
\* Two runs on the same inputs therefore return the same collection.
C4_ResultIndependentOfSchedule ==
    out_list.bound =>
        /\ out_list.val = [t \in Tasks |-> ReferenceFrame(t)]
        /\ df.val = Flatten([t \in Tasks |-> ReferenceFrame(t)])

C4_Witness ==
    /\ pc = "collected"
    /\ n_splits >= 2
    /\ imp[<<1, "GridSearchCV", "PFI", 1>>] # imp[<<2, "GridSearchCV", "PFI", 1>>]


\* the base learner's fit raised in task t
FitRaised(t) == raised[t] = Exc("ValueError", "model_c.fit")

\* the imputation model of the strategy raised in task t
AuxRaised(t) == raised[t] = Exc("ValueError", "vim.fit")

\* the test partition of task t has fewer than 2 rows
ShortTest(t) == Cardinality(TestIndex(FoldOf(t))) < 2

\* task t has left run_one_fold, by a return or by an exception
Left(t) == status[t] \in {"done", "raised"}

\* C5 as stated: a fit that raises in one fold leaves the other folds alone: when
\* the run has ended, every other task has run to completion and its records are
\* in the result.
C5_Original ==
    (pc # "dispatch" /\ \E t \in DOMAIN status : FitRaised(t)) =>
        /\ \A u \in DOMAIN status : ~FitRaised(u) => status[u] = "done" /\ results[u].bound
        /\ out_list.bound

\* C5 amended: a fit that raises in one fold is neither caught nor retried (the
\* task stays raised and its model is never fitted); the exception leaves the
\* Parallel call, so the whole run ends with it: out_list and df are never bound,
\* no record of any fold reaches a result, and no p-value is computed.
C5_FitFailureEndsTheRun ==
    \A t \in DOMAIN status :
        FitRaised(t) =>
            /\ status[t] = "raised"
            /\ t \notin fitted
            /\ ~results[t].bound
            /\ pc \in {"dispatch", "failed"}
            /\ pc = "failed" => error # NoExc
            /\ ~out_list.bound /\ ~df.bound /\ ~pval_all.bound /\ ~df_pval.bound

C5_Witness ==
    /\ pc = "failed"
    /\ error = Exc("ValueError", "model_c.fit")
    /\ \E u \in DOMAIN status : status[u] = "done" /\ results[u].bound
    /\ \E u \in DOMAIN status : status[u] = "pending"

\* C6 as stated: with more folds than samples, or a group naming a column outside
\* X, the run fails before any computation: when it has failed, no model has been
\* fitted and no record produced.
C6_Original ==
    (pc = "failed" /\ (n_splits > NSamples \/ ~GroupsInRange(groups))) =>
        /\ fitted = {}
        /\ \A t \in DOMAIN status : ~results[t].bound

\* C6 amended: with more folds than samples the run fails with the splitter's
\* ValueError before any task exists: nothing is fitted, nothing recorded. A group
\* naming a column outside X is not looked at before the dispatch: the IndexError
\* is raised inside a fold task, by the strategy, after that task's base model has
\* been fitted; no task returns a record and the run ends without out_list.
C6_ConfigurationFailures ==
    /\ (n_splits > NSamples /\ pc # "start") =>
          /\ pc = "failed"
          /\ error = Exc("ValueError", "cv.split")
          /\ status = <<>>
          /\ fitted = {}
          /\ ~out_list.bound /\ ~df.bound
    /\ (n_splits <= NSamples /\ ~GroupsInRange(groups)) =>
          /\ pc \in {"start", "dispatch", "failed"}
          /\ ~out_list.bound /\ ~df.bound
          /\ \A t \in DOMAIN status :
               /\ ~results[t].bound
               /\ status[t] # "done"
               /\ raised[t].type = "IndexError" => t \in fitted /\ raised[t].site = "vim.fit"

C6_Witness ==
    /\ pc = "failed"
    /\ error = Exc("IndexError", "vim.fit")
    /\ fitted # {}

\* C7 as stated: when the auxiliary model cannot be fitted for a group in a fold,
\* the fold still yields a record for the group, marked missing.
C7_Original ==
    \A t \in DOMAIN status : AuxRaised(t) => results[t].bound

\* C7 amended: when the imputation model of CPI cannot be fitted in a fold, vim.fit
\* raises out of run_one_fold: the fold yields no record at all, neither a missing
\* one nor 0 (every importance a task returns is the measured one); the
\* exception ends the run, so there is no out_list, no df and no aggregation over
\* the other folds.
C7_AuxFailureEndsTheRun ==
    /\ \A t \in DOMAIN status :
         AuxRaised(t) =>
            /\ VimOf(t) = "CPI"
            /\ status[t] = "raised"
            /\ t \in fitted
            /\ ~results[t].bound
            /\ pc \in {"dispatch", "failed"}
            /\ ~out_list.bound /\ ~df.bound /\ ~pval_all.bound /\ ~df_pval.bound
    /\ \A t \in DOMAIN status :
         results[t].bound =>
            \A i \in 1..Len(groups) :
                results[t].val[i].importance = imp[<<FoldOf(t), ModelOf(t), VimOf(t), i>>]

C7_Witness ==
    /\ pc = "failed"
    /\ error = Exc("ValueError", "vim.fit")
    /\ \E u \in DOMAIN status : status[u] = "done" /\ results[u].bound

\* the importance sample of an entry of df_pval_list
SampleOf(e) == Filter(df.val, e.model, e.vim, e.feature)

AllEqual(s) == \A i, j \in 1..Len(s) : s[i] = s[j]

Entries(list) == {list[j] : j \in 1..Len(list)}

\* C8 as stated: compute_pval never returns for a sample with zero variance and a
\* positive mean (it raises instead).
C8_Original ==
    pval_all.bound =>
        \A e \in Entries(pval_all.val) : ~(AllEqual(SampleOf(e)) /\ SumSeq(SampleOf(e)) > 0)

\* C8 amended: for a sample with zero variance and a positive mean the aggregation
\* raises nothing: ttest_1samp returns t = +inf and p = 0.0, and compute_pval
\* returns the feature among those with pval < threshold.
C8_DegeneratePositiveGivesZero ==
    pval_all.bound =>
        \A e \in Entries(pval_all.val) :
            (AllEqual(SampleOf(e)) /\ SumSeq(SampleOf(e)) > 0) =>
                /\ e.pval = [kind |-> "zero"]
                /\ e \in Entries(df_pval.val)
                /\ pc = "pval" /\ error = NoExc

C8_Witness ==
    /\ pc = "pval"
    /\ n_splits = 2
    /\ \E e \in Entries(pval_all.val) : SampleOf(e) = <<2, 2>>

\* C9 as stated: a sample with zero variance and a mean <= 0 gets p = 1.0.
C9_Original ==
    pval_all.bound =>
        \A e \in Entries(pval_all.val) :
            (AllEqual(SampleOf(e)) /\ SumSeq(SampleOf(e)) <= 0) => e.pval = [kind |-> "one"]

\* C9 amended: a sample with zero variance and a negative mean gets p = 1.0
\* (t = -inf); a sample of zeros only (mean 0) gets t = 0/0 and p = nan; neither is
\* returned among the features with pval < threshold.
C9_DegenerateNonPositive ==
    pval_all.bound =>
        \A e \in Entries(pval_all.val) :
            AllEqual(SampleOf(e)) =>
                /\ SumSeq(SampleOf(e)) < 0 => e.pval = [kind |-> "one"]
                /\ SumSeq(SampleOf(e)) = 0 => e.pval = [kind |-> "nan"]
                /\ SumSeq(SampleOf(e)) <= 0 => e \notin Entries(df_pval.val)

C9_Witness ==
    /\ pc = "pval"
    /\ n_splits = 3
    /\ \E e \in Entries(pval_all.val) : SampleOf(e) = <<0, 0, 0>>

\* C10 as stated: a task whose test partition has fewer than 2 rows leaves
\* run_one_fold with InsufficientDataError and without a record.
C10_Original ==
    \A t \in DOMAIN status :
        (ShortTest(t) /\ Left(t)) =>
            raised[t].type = "InsufficientDataError" /\ ~results[t].bound

\* C10 amended: run_one_fold does not look at the size of the test partition. For
\* a fold with fewer than 2 test rows it fits the base model like for any fold;
\* then either it returns the fold's records, or an exception of the libraries
\* (never InsufficientDataError) leaves it, and with it the whole run ends
\* without out_list.
C10_NoTestSizeCheck ==
    \A t \in DOMAIN status :
        (ShortTest(t) /\ Left(t)) =>
            /\ raised[t].type \in {None, "ValueError", "IndexError"}
            /\ raised[t].site # "model_c.fit" => t \in fitted
            /\ status[t] = "done" => results[t].bound /\ raised[t] = NoExc
            /\ status[t] = "raised" =>
                  ~results[t].bound /\ ~out_list.bound /\ pc \in {"dispatch", "failed"}

C10_Witness ==
    /\ pc = "failed"
    /\ \E t \in DOMAIN status :
         /\ ShortTest(t)
         /\ error = Exc("ValueError", "vim.importance")
         /\ raised[t] = error
         /\ t \in fitted

(* C11: compute_pval is a pure function of df: a call leaves df, out_list and the
   frames of the tasks as they were, and a second call on the same df returns the
   p-values and the selection the first call returned. *)
C11_PvalIsPureFunctionOfRecords ==
    [][/\ (pc = "collected" =>
              df' = df /\ out_list' = out_list /\ results' = results /\ imp' = imp)
       /\ (pc = "pval" /\ pc' = "pval2" =>
              pval_all' = pval_all /\ df_pval' = df_pval /\ df' = df)]_vars

\* the second call has returned, with a p-value from the t distribution and a
\* feature under the threshold
C11_Witness ==
    /\ pc = "pval2"
    /\ \E e \in Entries(pval_all.val) : e.pval.kind = "sf"
    /\ Len(df_pval.val) > 0

\* the sample s in the order given by the permutation p of its positions
Reordered(s, p) == [i \in 1..Len(s) |-> s[p[i]]]

(* C12: the p-value of a (model, vim, feature) does not depend on the order of its
   per-fold importances: ttest_1samp of every reordering of the sample is the
   p-value compute_pval has returned, the outcomes without variance (0.0, 1.0,
   nan) included. *)
C12_PvalIndependentOfFoldOrder ==
    pc = "pval" =>
        \A e \in Entries(pval_all.val) :
            LET sample == SampleOf(e)
            IN  \A p \in Permutations(1..Len(sample)) :
                    TTest1Samp(Reordered(sample, p)) = e.pval

\* three folds with three different importances, and a p-value from the t
\* distribution
C12_Witness ==
    /\ pc = "pval"
    /\ n_splits = 3
    /\ \E e \in Entries(pval_all.val) :
         /\ e.pval.kind = "sf"
         /\ Cardinality({SampleOf(e)[i] : i \in 1..Len(SampleOf(e))}) = 3

(* C13: while Parallel dispatches the tasks, the number of tasks that are running
   at the same time never exceeds n_jobs. *)
C13_RunningWithinNJobs ==
    pc = "dispatch" => Cardinality(Running) <= NJobs

\* the limit binds: n_jobs tasks are running and a further task waits for a worker
C13_Witness ==
    /\ pc = "dispatch"
    /\ Cardinality(Running) = NJobs
    /\ \E t \in DOMAIN status : status[t] = "pending"
    /\ \E t \in DOMAIN status : status[t] = "done"

\* the tasks that have returned their frame
Done == {t \in DOMAIN status : status[t] = "done"}

(* C14 as stated: every task draws from a stream of its own, seeded with the base
   seed plus the index of the task, so that no two tasks draw the same stream. *)
C14_Original ==
    \A t, u \in Done :
        /\ RandomStateOf(t).seed = 0 + t
        /\ (t # u => RandomStateOf(t) # RandomStateOf(u))

(* C14: every task builds a generator of its own from the constant random_state=0,
   whatever its index: the frame it returns is the one measured with the draws of
   a fresh RandomState(0), and all tasks draw the same stream. *)
C14_EveryTaskSeedsWithZero ==
    \A t \in Done :
        /\ results[t].val = Frame(t, Importance(t, [seed |-> 0, pos |-> 0]))
        /\ \A u \in Done : RandomStateOf(u) = RandomStateOf(t)

\* tasks of two folds and of both strategies have returned while others still run
C14_Witness ==
    /\ pc = "dispatch"
    /\ \E t, u \in Done : FoldOf(t) # FoldOf(u) /\ VimOf(t) # VimOf(u)
    /\ Running # {}

\* the importances the two loops over the kept models have appended so far
KeptModelImportances ==
    {permutation_importances[i] : i \in 1..Len(permutation_importances)}
        \cup {conditional_importances[i] : i \in 1..Len(conditional_importances)}

(* C15: the i-th entry of either loop over the kept models is computed with the
   model kept for fold i and with no other, on the rows of the test partition of
   the fold that model was fitted in: none of the rows was among its training rows. *)
C15_KeptModelScoredOnOwnFold ==
    /\ \A i \in 1..Len(permutation_importances) :
         permutation_importances[i].model_c.fold = i
    /\ \A i \in 1..Len(conditional_importances) :
         conditional_importances[i].model_c.fold = i
    /\ \A e \in KeptModelImportances :
         /\ e.rows = e.model_c.scored
         /\ e.rows \cap e.model_c.train = {}

\* both loops have gone through three folds of a shuffle that moves the rows
C15_Witness ==
    /\ pc = "end"
    /\ n_splits = 3
    /\ Len(permutation_importances) = 3
    /\ Len(conditional_importances) = 3
    /\ indices # [i \in 1..NSamples |-> i]

\* the columns cols of X as one column: row i holds the values of row i in cols
SuperFeature(X, cols) == [i \in 1..NTest |-> [j \in cols |-> X[i][j]]]

\* X with the one column SuperFeature(X, cols) reordered by perm and unpacked again
SuperFeatureCopy(X, cols, perm) ==
    [i \in 1..NTest |->
        [j \in 1..NFeatures |->
            IF j \in cols THEN SuperFeature(X, cols)[perm[i]][j] ELSE X[i][j]]]

\* the permutation importance of the columns cols taken as one feature, with the
\* draws the group at position gi gets
SuperFeatureImportance(cols, gi) ==
    MeanLossIncrease(estimator, y_test, X_test,
        [r \in 1..NPermutations |->
            SuperFeatureCopy(X_test, cols,
                             DrawPermutation(0, (gi - 1) * NPermutations + r))])

(* C16: the importance of a group is the importance of its columns taken as one
   unit: for PFI the importance of the super-feature made of the columns, permuted
   as one column; for LOCO the loss difference of the one model refitted without
   any column of the group. *)
C16_GroupIsOneUnit ==
    /\ pc = "pfi_importance" =>
          \A gi \in 1..Len(groups) :
              importances.val[gi] = SuperFeatureImportance(groups[gi].cols, gi)
    /\ pc = "loco_importance" =>
          /\ Len(sub_models) = Len(groups)
          /\ \A gi \in 1..Len(groups) :
                /\ sub_models[gi] \cap groups[gi].cols = {}
                /\ importances.val[gi].num =
                       Loss(y_test, Predict(sub_models[gi], X_test))
                           - Loss(y_test, Predict(estimator, X_test))

\* a group of two columns whose importance is not the sum of the importances of
\* its columns
C16_Witness ==
    /\ pc = "pfi_importance"
    /\ groups = JointGroups
    /\ Cardinality(groups[1].cols) > 1
    /\ importances.val[1] # SummedImportance(1)
    /\ importances.val[1].num > 0

\* the loss of the full model and of the model refitted without the group at gi
FullLoss == Loss(y_test, Predict(estimator, X_test))

ReducedLoss(gi) == Loss(y_test, Predict(sub_models[gi], X_test))

\* NTest^2 times the variance of y_test
ScaledVarY == ScaledVariance([i \in 1..NTest |-> y_test[i]])

\* NTest^2 times psi = V(y) [(1 - E[(y - mu(X))^2] / V(y)) - (1 - E[(y - mu_-j(X^-j))^2] / V(y))]
\* with the expectations taken over the test rows
ScaledPsi(gi) == (ScaledVarY - NTest * FullLoss) - (ScaledVarY - NTest * ReducedLoss(gi))

(* C17: the LOCO importance of a group is the test loss of the model refitted
   without the group minus the test loss of the full model (the psi of the
   notebook), so it is positive exactly when the loss is larger without the group;
   vim.fit has refitted one model per group. *)
C17_LocoIsReducedMinusFull ==
    /\ pc \in {"loco_fit", "loco_importance"} => Len(sub_models) = Len(groups)
    /\ pc = "loco_importance" =>
          \A gi \in 1..Len(groups) :
              /\ importances.val[gi].den = 1
              /\ (importances.val[gi].num > 0) <=> (ReducedLoss(gi) > FullLoss)
              /\ (importances.val[gi].num < 0) <=> (ReducedLoss(gi) < FullLoss)
              /\ ScaledVarY # 0 => NTest * NTest * importances.val[gi].num = NTest * ScaledPsi(gi)

\* a model with a loss of its own, one column whose removal raises the loss and one
\* whose removal leaves it as it is
C17_Witness ==
    /\ pc = "loco_importance"
    /\ ScaledVarY # 0
    /\ FullLoss > 0
    /\ \E gi, gj \in 1..Len(groups) :
         importances.val[gi].num > 0 /\ importances.val[gj].num = 0

\* the loss on the copy made for the group at gi in repetition r
PermutedLoss(gi, r) == Loss(y_test, Predict(estimator, permuted[gi][r]))

(* C18: the PFI importance of a group is the mean over the n_permutations
   repetitions of (loss on the permuted copy - loss on X_test); every copy holds
   the columns outside the group as they are in X_test and the columns of the
   group with their rows reordered. *)
C18_PfiIsMeanLossIncrease ==
    pc = "pfi_importance" =>
        \A gi \in 1..Len(groups) :
            /\ Len(permuted[gi]) = NPermutations
            /\ importances.val[gi].den = NPermutations
            /\ importances.val[gi].num =
                   SumSeq([r \in 1..NPermutations |-> PermutedLoss(gi, r) - FullLoss])
            /\ \A r \in 1..NPermutations :
                  /\ \A i \in 1..NTest : \A j \in (1..NFeatures) \ groups[gi].cols :
                        permuted[gi][r][i][j] = X_test[i][j]
                  /\ \E perm \in Permutations(1..NTest) :
                        \A i \in 1..NTest : \A j \in groups[gi].cols :
                            permuted[gi][r][i][j] = X_test[perm[i]][j]

\* a column on its own whose copies differ from X_test and raise the loss, next to
\* a column that is not in the group
C18_Witness ==
    /\ pc = "pfi_importance"
    /\ groups = IndividualGroups
    /\ \E gi \in 1..Len(groups) :
         /\ importances.val[gi].num > 0
         /\ \A r \in 1..NPermutations : permuted[gi][r] # X_test
         /\ \E i, k \in 1..NTest : \E j \in (1..NFeatures) \ groups[gi].cols :
               X_test[i][j] # X_test[k][j]

(* C19: compute_pval applies no multiple-testing correction: every p-value is the
   p-value of ttest_1samp on the sample of its (model, vim, feature) alone, and the
   frame returned holds exactly the entries whose own p-value is below the
   threshold 0.05, whatever the number of tests. *)
C19_NoCorrectionInside ==
    pc = "pval" =>
        /\ \A e \in Entries(pval_all.val) :
              /\ e.pval = TTest1Samp(SampleOf(e))
              /\ (e \in Entries(df_pval.val)) <=> BelowThreshold(e.pval)
        /\ Entries(df_pval.val) \subseteq Entries(pval_all.val)

\* compute_pval returns a feature that a Bonferroni correction for the tests made
\* would not
C19_Witness ==
    /\ pc = "pval"
    /\ Len(pval_all.val) > 1
    /\ \E e \in Entries(df_pval.val) : e.pval.kind = "sf" /\ ~BelowBonferroni(e.pval)

\* task t has left run_one_fold and neither a fit nor a loss has raised in it
NoModelFailure(t) ==
    /\ Left(t)
    /\ raised[t].site \notin {"model_c.fit", "vim.fit", "vim.importance"}

(* C20 as stated: when no groups are passed to run_one_fold, every column is a
   group of its own and a call in which no model fails returns one record per
   column of X; the missing mapping is not an error. *)
C20_Original ==
    groups = NoGroups =>
        \A t \in DOMAIN status :
            NoModelFailure(t) =>
                /\ status[t] = "done"
                /\ results[t].bound
                /\ Len(results[t].val) = NFeatures

\* what the code does instead: the call fits the model and then raises
\* AttributeError at groups.keys(), and the run ends without out_list
C20_Observed ==
    groups = NoGroups =>
        /\ \A t \in DOMAIN status :
              NoModelFailure(t) =>
                  /\ status[t] = "raised"
                  /\ raised[t] = Exc("AttributeError", "groups.keys")
                  /\ t \in fitted
                  /\ ~results[t].bound
        /\ ~out_list.bound

C20_Witness ==
    /\ groups = NoGroups
    /\ pc = "failed"
    /\ error = Exc("AttributeError", "groups.keys")

(* C21: on the XOR dataset no function of the sign of one feature gives the label,
   every univariate model scores exactly half of a balanced test partition, and the
   CPI importance of each feature, taken with a model that has learned the XOR, is
   greater than 0. *)
C21_MarginalAtChanceConditionalPositive ==
    pc \in {"xor", "xor_marginal", "xor_cpi"} =>
        /\ \A j \in 1..XorFeatures :
              \A f \in UnivariateModels :
                  \E r \in 1..XorRows : f[X_test[r][j]] # y_test[r]
        /\ \A k \in DOMAIN marginal_scores : 2 * marginal_scores[k].score = XorRows
        /\ pc = "xor_cpi" =>
              \A gi \in 1..XorFeatures : importances.val[gi].num > 0

C21_Witness ==
    /\ pc = "xor_cpi"
    /\ Len(marginal_scores) = XorFeatures
    /\ marginal_scores[1].model # marginal_scores[2].model
    /\ Loss(y_test, Predict(estimator, X_test)) = 0
    /\ \E gi \in 1..XorFeatures : \E r \in 1..NPermutations : permuted[gi][r] = X_test

(* C22: in no run of the CI pipeline is the documentation built after failed tests
   or before the tests have ended, and in no run is an example executed unless the
   linter has passed before. *)
C22_LintBeforeExamplesTestsBeforeDocs ==
    pc = "ci" =>
        /\ docs = "built" => tests \in {"passed", "skipped"}
        /\ examples_run # {} => lint = "passed"

C22_Witness ==
    /\ pc = "ci"
    /\ docs = "built"
    /\ tests = "passed"
    /\ lint = "passed"
    /\ examples_run = Examples

(* C23 as stated: the auxiliary model of CPI is fitted on the training partition of
   the fold only: in every fold the rows passed to fit are disjoint from the test
   rows on which the importance is then measured. *)
C23_Original ==
    \A i \in 1..Len(conditional_importances) :
        conditional_importances[i].fit_rows \cap conditional_importances[i].rows = {}

\* what the loops over the kept models do instead: cpi.fit and pfi.fit get the very
\* rows of the test partition the importance is then measured on
C23_Observed ==
    \A e \in KeptModelImportances :
        /\ e.fit_rows = e.rows
        /\ e.rows # {}
        /\ e.fit_rows \cap e.model_c.train = {}

C23_Witness ==
    /\ pc = "end"
    /\ Len(conditional_importances) = n_splits
    /\ \A i \in 1..n_splits :
          conditional_importances[i].fit_rows = TestIndexOfCall(3, i)

\* the draw CPI uses for repetition r of the group at position gi
CpiDraw(gi, r) == DrawPermutation(0, (gi - 1) * NPermutations + r)

\* the auxiliary model of the group at position gi predicts its columns exactly on
\* every row of X_test
ResidualsZero(gi) ==
    \A i \in 1..NTest : \A j \in groups[gi].cols :
        Residual(imputers[gi], X_test, groups[gi].cols, i, j) = 0

(* C24: every perturbed copy CPI makes for a group keeps the columns outside the
   group, and in the group its residuals towards the auxiliary predictions are the
   residuals of X_test in permuted row order; when all residuals of the group are
   zero every copy equals X_test and the importance of the group is 0. *)
C24_ResidualsPermutedAroundPrediction ==
    pc = "cpi_importance" =>
        \A gi \in 1..Len(groups) :
            /\ \A r \in 1..NPermutations :
                  \A i \in 1..NTest : \A j \in 1..NFeatures :
                      IF j \in groups[gi].cols
                      THEN Residual(imputers[gi], permuted[gi][r], groups[gi].cols, i, j)
                             = Residual(imputers[gi], X_test, groups[gi].cols,
                                        CpiDraw(gi, r)[i], j)
                      ELSE permuted[gi][r][i][j] = X_test[i][j]
            /\ ResidualsZero(gi) =>
                  /\ \A r \in 1..NPermutations : permuted[gi][r] = X_test
                  /\ importances.val[gi].num = 0

\* an auxiliary model that predicts a column exactly from the other one, for a column
\* that is not constant and that the estimator reads: permuting its observed values
\* would change the loss
C24_Witness ==
    /\ pc = "cpi_importance"
    /\ groups = IndividualGroups
    /\ imputers[1] = "others"
    /\ ResidualsZero(1)
    /\ permuted[1][1] = X_test
    /\ importances.val[1].num = 0
    /\ MeanLossIncrease(estimator, y_test, X_test,
                        PermutedCopies(X_test, groups, 1)).num # 0

\* the orders the rows of X_test can be put in
RowOrders == {f \in [1..NTest -> 1..NTest] : \A a, b \in 1..NTest : f[a] = f[b] => a = b}

(* C25: in every copy PFI makes for a group, one and the same order of the rows is
   applied to all columns of the group and to no other column: each row of the copy
   carries, in the group, the values of one single row of X_test. *)
C25_OneRowOrderPerCopy ==
    pc = "pfi_importance" =>
        \A gi \in 1..Len(groups) : \A r \in 1..NPermutations :
            \E perm \in RowOrders :
                \A i \in 1..NTest : \A j \in 1..NFeatures :
                    permuted[gi][r][i][j] =
                        IF j \in groups[gi].cols THEN X_test[perm[i]][j] ELSE X_test[i][j]

\* a group of several columns, on a matrix whose rows all differ and whose columns
\* differ, and a copy that is not X_test
C25_Witness ==
    /\ pc = "pfi_importance"
    /\ groups = JointGroups
    /\ Cardinality(groups[1].cols) > 1
    /\ \A a, b \in 1..NTest : X_test[a] = X_test[b] => a = b
    /\ \E i \in 1..NTest : X_test[i][1] # X_test[i][2]
    /\ \E r \in 1..NPermutations : permuted[1][r] # X_test

(* C26: importance records only accumulate: the frame a task has returned, out_list
   and df are never changed or removed by a later task or by the aggregation, and
   the significance result is computed once, from the df that holds the records of
   all tasks, and is not changed afterwards. *)
C26_RecordsOnlyAccumulate ==
    [][/\ \A t \in DOMAIN results :
             results[t].bound => t \in DOMAIN results' /\ results'[t] = results[t]
       /\ out_list.bound => out_list' = out_list
       /\ df.bound => df' = df
       /\ df_pval.bound => df_pval' = df_pval /\ pval_all' = pval_all
       /\ (~df_pval.bound /\ df_pval'.bound) =>
             /\ AllReturned
             /\ df.bound
             /\ df.val = Flatten(OutList)
             /\ Len(df.val) = NTasks * Len(groups)
             /\ pval_all'.val = PvalList(df.val)]_vars

\* the significance result is there, computed from the frames of all tasks
C26_Witness ==
    /\ pc = "pval"
    /\ df_pval.bound
    /\ n_splits = 3
    /\ Len(df.val) = NTasks * Len(groups)
    /\ Len(groups) > 1

(* C27: run_one_fold chooses the channel and the loss together from the class of
   the model: the vim of a LogisticRegressionCV is built with predict_proba and
   log_loss and its frame says "LogReg", the vim of every other model with
   decision_function and hinge_loss and its frame says "SVC". *)
C27_ChannelAndLossGoTogether ==
    \A t \in DOMAIN vims :
        vims[t].bound =>
            LET logreg == ModelOf(t) = "LogisticRegressionCV"
                label == IF logreg THEN "LogReg" ELSE "SVC"
            IN  /\ vims[t].val.estimator = ModelOf(t)
                /\ vims[t].val.method = IF logreg THEN "predict_proba" ELSE "decision_function"
                /\ vims[t].val.loss = IF logreg THEN "log_loss" ELSE "hinge_loss"
                /\ results[t].bound =>
                      \A i \in 1..Len(results[t].val) : results[t].val[i].model = label

\* both models have gone through run_one_fold, each with CPI or PFI
C27_Witness ==
    /\ pc = "collected"
    /\ \E t, u \in DOMAIN vims :
          /\ vims[t].bound /\ results[t].bound
          /\ vims[u].bound /\ results[u].bound
          /\ vims[t].val.loss = "log_loss"
          /\ vims[u].val.loss = "hinge_loss"
          /\ vims[t].val.class # vims[u].val.class

\* the tasks whose vim_name run_one_fold has no branch for
UnknownVimTasks == {t \in DOMAIN status : VimOf(t) \notin {"CPI", "PFI"}}

(* C29: a call of run_one_fold with a vim_name other than "CPI" or "PFI" binds no
   vim: it never returns a frame, and unless the fit of the base model has raised it
   ends, with the base model fitted, in the exception raised at vim.fit for the
   unbound name; Parallel then returns no out_list. *)
C29_UnknownNameBindsNoVim ==
    /\ \A t \in UnknownVimTasks :
          /\ ~results[t].bound
          /\ ~vims[t].bound
          /\ status[t] # "done"
          /\ status[t] = "raised" =>
                \/ /\ raised[t] = Exc("UnboundLocalError", "vim.fit")
                   /\ t \in fitted
                \/ /\ raised[t] = Exc("ValueError", "model_c.fit")
                   /\ t \notin fitted
    /\ UnknownVimTasks # {} => ~out_list.bound

\* a task with a known name has returned its frame, a task with the unknown name has
\* fitted its model and raised, and the run has ended with that exception
C29_Witness ==
    /\ pc = "failed"
    /\ error = Exc("UnboundLocalError", "vim.fit")
    /\ \E t \in UnknownVimTasks : raised[t] = error /\ t \in fitted
    /\ \E u \in DOMAIN status : results[u].bound /\ vims[u].bound

(* C28: in the fMRI example a MemoryError raised by desparsified_lasso or by
   desparsified_lasso_pvalue leaves pval_dl and one_minus_pval_dl None, the map of
   Desparsified Lasso is not plotted and the clustered and the ensemble clustered
   inference run and are plotted; without an error both names hold maps and the map
   is plotted first; an exception of any other type is not caught and ends the run. *)
C28_OnlyMemoryErrorIsCaught ==
    pc \in {"fmri_cdl", "fmri_encludl", "fmri_plot", "fmri_done", "failed"} =>
        /\ raised_in_try.type = "MemoryError" =>
              /\ pval_dl = NoneValue
              /\ one_minus_pval_dl = NoneValue
              /\ pc # "failed"
              /\ error = NoExc
              /\ pc = "fmri_done" =>
                    /\ plotted = <<"CluDL", "EnCluDL">>
                    /\ pval_cdl.bound
                    /\ selected.bound
        /\ raised_in_try = NoExc =>
              /\ pval_dl.bound /\ pval_dl # NoneValue
              /\ one_minus_pval_dl = Bound(OneMinus(pval_dl.val))
              /\ pc = "fmri_done" =>
                    plotted = <<"Desparsified Lasso", "CluDL", "EnCluDL">>
        /\ raised_in_try.type \notin {None, "MemoryError"} =>
              /\ pc = "failed"
              /\ error = raised_in_try
              /\ ~pval_dl.bound
              /\ ~one_minus_pval_dl.bound
              /\ ~pval_cdl.bound
              /\ plotted = <<>>

\* the second call of the try block has raised MemoryError and the run has plotted
\* the two other maps
C28_Witness ==
    /\ pc = "fmri_done"
    /\ raised_in_try = Exc("MemoryError", "desparsified_lasso_pvalue")
    /\ printed # <<>>
    /\ plotted = <<"CluDL", "EnCluDL">>
    /\ selected.bound

\* the six lists of effect_number_samples, in the order of the values of single_run
SixLists == <<fdps_mx, fdps_pval, fdps_eval, powers_mx, powers_pval, powers_eval>>

(* C30: effect_number_samples collects one tuple per seed of seed_list, in the
   order of seed_list whatever the order in which the workers finish: each of the
   six lists has length runs and its position i holds the value of the run with the
   i-th seed. *)
C30_ResultsInSeedOrder ==
    /\ knockoff_results.bound =>
          /\ Len(knockoff_results.val) = Len(seed_list)
          /\ \A i \in 1..Len(seed_list) :
                knockoff_results.val[i] = SingleRun(n_samples, seed_list[i])
    /\ pc = "knockoff_done" =>
          \A k \in 1..Len(Metrics) :
              /\ Len(SixLists[k]) = NRuns
              /\ \A i \in 1..NRuns :
                    SixLists[k][i] = <<Metrics[k], n_samples, seed_list[i]>>

\* the runs have returned in an order that is not that of seed_list, with seeds that
\* all differ
C30_Witness ==
    /\ pc = "knockoff_done"
    /\ \A i, j \in 1..NRuns : seed_list[i] = seed_list[j] => i = j
    /\ \E k \in 1..NRuns : finish_order[k] # k
    /\ Len(fdps_mx) = NRuns

=============================================================================
